---- MODULE Spec2Model ----
(***************************************************************************)
(* Task management API: the task lifecycle service (TaskService), the task *)
(* repository (TaskRepository, PostgreSQL) and the task entity validator   *)
(* (Task), as a state machine over the rows of the tasks table; and the    *)
(* account service (UserService) with the user repository (UserRepository) *)
(* over the rows of the users table, each call a process that advances     *)
(* from one query to the next, so that calls can interleave.               *)
(*                                                                         *)
(* Values.  An optional value (SQL NULL, JS null/undefined) is a sequence  *)
(* of length at most one: <<>> is "no value", <<v>> is the value v.  A     *)
(* title, a description, a username, an email and a password are tuples of *)
(* characters.                                                             *)
(* An instant is a number of ticks; a                                      *)
(* calendar day is TicksPerDay ticks; the DATE column keeps the day only.  *)
(***************************************************************************)
EXTENDS Integers, Sequences, FiniteSets, TLC

VARIABLES
  tasks,   \* the tasks table: task_id -> row
  nextId,  \* the next value of the SERIAL sequence of tasks.task_id
  now,     \* the clock (new Date(), NOW())
  last,    \* the last service call: operation, arguments, result
  calls,   \* the number of service calls in a bounded session
  users,   \* the users table: user_id -> row
  nextUserId,  \* the next value of the SERIAL sequence of users.user_id
  procs,   \* the calls of the account service that run concurrently
  held     \* the refresh tokens that clients have kept

vars == <<tasks, nextId, now, last, calls, users, nextUserId, procs, held>>
accounts == <<users, nextUserId, procs, held>>

(* ------------------------------ bounds --------------------------------- *)
MaxTasks == 2
MaxDay == 2
TicksPerDay == 2
MaxCalls == 4
MaxUsers == 2

(* --------------------------- program constants ------------------------- *)
MaxTitleLen == 100
(* the default of the days parameter of getTasksDueSoon *)
DefaultDays == 3
(* the password and username rules, the widths of the users columns *)
MinPasswordLen == 8
MinUsernameLen == 3
MaxUsernameLen == 50
MaxEmailLen == 100

UserIds == {1, 2}
CategoryIds == {1, 2}
PriorityIds == {1, 2}

Role(u) == IF u = 2 THEN "admin" ELSE "user"

Null == <<>>
Some(v) == <<v>>
IsNull(o) == o = <<>>
Val(o) == o[1]

(* TaskStatus enum *)
TaskStatus == {"pending", "in_progress", "completed", "cancelled"}
PENDING == "pending"

(* ------------------------------- time ---------------------------------- *)
DayOf(i) == i \div TicksPerDay
StartOfDay(i) == DayOf(i) * TicksPerDay
MaxNow == (MaxDay + 1) * TicksPerDay - 1
IsNaN(i) == i < 0

(* ------------------------------ payloads ------------------------------- *)
(* A request payload: keys = the object's own keys, def = the keys whose   *)
(* value is not undefined; a field's value is optional (<<>> = null).      *)
Fields == {"title", "description", "category_id", "priority_id", "due_date", "status"}

EmptyData ==
  [keys |-> {}, def |-> {}, user_id |-> Null, title |-> Null, description |-> Null,
   category_id |-> Null, priority_id |-> Null, due_date |-> Null, status |-> Null]

With(d, f, v) == [d EXCEPT ![f] = v, !.keys = @ \cup {f}, !.def = @ \cup {f}]
WithUndefined(d, f) == [d EXCEPT !.keys = @ \cup {f}]

Defined(d, f) == f \in d.def
(* JS truthiness of a field: defined, not null, and not "" / 0.  Date      *)
(* objects (also an Invalid Date) are truthy.                              *)
Truthy(d, f) ==
  /\ f \in d.def
  /\ ~IsNull(d[f])
  /\ CASE f = "title" -> Len(Val(d[f])) > 0
       [] f = "status" -> Val(d[f]) # ""
       [] f = "description" -> Val(d[f]) # <<>>
       [] f \in {"user_id", "category_id", "priority_id"} -> Val(d[f]) # 0
       [] OTHER -> TRUE

IsBlank(t) == \A i \in 1..Len(t) : t[i] = " "

(* ------------------------------ the table ------------------------------ *)
Exists(id) == id \in DOMAIN tasks

(* Task.fromDatabaseRow *)
fromDatabaseRow(row) ==
  [task_id |-> row.task_id,
   user_id |-> row.user_id,
   category_id |-> IF ~IsNull(row.category_id) /\ Val(row.category_id) # 0
                   THEN row.category_id ELSE Null,
   priority_id |-> IF ~IsNull(row.priority_id) /\ Val(row.priority_id) # 0
                   THEN row.priority_id ELSE Null,
   title |-> row.title,
   description |-> IF ~IsNull(row.description) /\ Val(row.description) # <<>>
                   THEN row.description ELSE Null,
   due_date |-> IF ~IsNull(row.due_date)
                THEN Some(Val(row.due_date) * TicksPerDay) ELSE Null,
   status |-> row.status,
   created_at |-> row.created_at,
   updated_at |-> row.updated_at]

(* TaskRepository.findById *)
findById(id) == IF Exists(id) THEN <<fromDatabaseRow(tasks[id])>> ELSE <<>>

(* an outcome of a service call: result kind, returned tasks, new table *)
Outcome(res, ret, t, n) == [res |-> res, ret |-> ret, tasks |-> t, nextId |-> n]
Fail(code) == Outcome(code, <<>>, tasks, nextId)

(* ------------------------- Task entity validator ----------------------- *)
(* Task.validateCreate: an error code, or "ok" *)
validateCreate(d) ==
  IF ~Truthy(d, "user_id") THEN "USER_ID_REQUIRED"
  ELSE IF ~Truthy(d, "title") \/ IsBlank(Val(d.title)) THEN "INVALID_TITLE"
  ELSE IF Len(Val(d.title)) > MaxTitleLen THEN "INVALID_TITLE_LENGTH"
  ELSE IF Truthy(d, "due_date") /\ IsNaN(Val(d.due_date)) THEN "INVALID_DUE_DATE"
  ELSE "ok"

(* validateUpdate without the check for an empty payload *)
validateUpdate_NoEmptyCheck(d) ==
  IF Defined(d, "title") /\ IsNull(d.title) THEN "TypeError"
  ELSE IF Defined(d, "title") /\ IsBlank(Val(d.title)) THEN "INVALID_TITLE"
  ELSE IF Defined(d, "title") /\ Len(Val(d.title)) > MaxTitleLen THEN "INVALID_TITLE_LENGTH"
  ELSE IF Truthy(d, "due_date") /\ IsNaN(Val(d.due_date)) THEN "INVALID_DUE_DATE"
  ELSE IF Truthy(d, "status") /\ Val(d.status) \notin TaskStatus THEN "INVALID_STATUS"
  ELSE "ok"

(* Task.validateUpdate: an error code, or "ok".  A title that is defined   *)
(* but null makes title.trim() throw a TypeError.                          *)
validateUpdate(d) ==
  IF d.keys = {} THEN "NO_UPDATE_DATA"
  ELSE IF Defined(d, "title") /\ IsNull(d.title) THEN "TypeError"
  ELSE IF Defined(d, "title") /\ IsBlank(Val(d.title)) THEN "INVALID_TITLE"
  ELSE IF Defined(d, "title") /\ Len(Val(d.title)) > MaxTitleLen THEN "INVALID_TITLE_LENGTH"
  ELSE IF Truthy(d, "due_date") /\ IsNaN(Val(d.due_date)) THEN "INVALID_DUE_DATE"
  ELSE IF Truthy(d, "status") /\ Val(d.status) \notin TaskStatus THEN "INVALID_STATUS"
  ELSE "ok"

(* ---------------------------- TaskRepository --------------------------- *)
(* a query parameter as the column receives it: undefined and null are     *)
(* NULL, a Date given to the DATE column keeps its calendar day            *)
Param(d, f) == IF Defined(d, f) THEN d[f] ELSE Null
DateParam(d) ==
  IF Defined(d, "due_date") /\ ~IsNull(d.due_date)
  THEN Some(DayOf(Val(d.due_date))) ELSE Null

(* the foreign keys of the tasks table *)
ForeignKeysOk(row) ==
  /\ row.user_id \in UserIds
  /\ IsNull(row.category_id) \/ Val(row.category_id) \in CategoryIds
  /\ IsNull(row.priority_id) \/ Val(row.priority_id) \in PriorityIds

(* an INSERT that takes the status from the input when it has one *)
InsertRow_StatusFromInput(d) ==
  [task_id |-> nextId,
   user_id |-> Val(d.user_id),
   category_id |-> Param(d, "category_id"),
   priority_id |-> Param(d, "priority_id"),
   title |-> Val(d.title),
   description |-> Param(d, "description"),
   due_date |-> DateParam(d),
   status |-> IF Defined(d, "status") THEN d.status ELSE Some(PENDING),
   created_at |-> now,
   updated_at |-> now]

(* the row that INSERT INTO tasks ... builds *)
InsertRow(d) ==
  [task_id |-> nextId,
   user_id |-> Val(d.user_id),
   category_id |-> Param(d, "category_id"),
   priority_id |-> Param(d, "priority_id"),
   title |-> Val(d.title),
   description |-> Param(d, "description"),
   due_date |-> DateParam(d),
   status |-> Some(PENDING),
   created_at |-> now,
   updated_at |-> now]

(* TaskRepository.create.  A rejected INSERT still consumes a task_id of   *)
(* the SERIAL sequence.                                                    *)
RepoCreate(d) ==
  IF validateCreate(d) # "ok" THEN Fail(validateCreate(d))
  ELSE IF ~ForeignKeysOk(InsertRow(d))
       THEN Outcome("INTERNAL_ERROR", <<>>, tasks, nextId + 1)
  ELSE Outcome("ok", <<fromDatabaseRow(InsertRow(d))>>,
               [i \in DOMAIN tasks \cup {nextId} |->
                  IF i = nextId THEN InsertRow(d) ELSE tasks[i]],
               nextId + 1)

(* the columns that TaskRepository.update puts in its SET clause *)
UpdateColumns(d) == {f \in Fields : Defined(d, f)}

(* an UPDATE that also writes the user_id of the payload *)
UpdateRow_WithOwner(row, d) ==
  [row EXCEPT
     !.user_id = IF Defined(d, "user_id") /\ ~IsNull(d.user_id) THEN Val(d.user_id) ELSE @,
     !.title = IF Defined(d, "title") THEN Val(d.title) ELSE @,
     !.description = IF Defined(d, "description") THEN d.description ELSE @,
     !.category_id = IF Defined(d, "category_id") THEN d.category_id ELSE @,
     !.priority_id = IF Defined(d, "priority_id") THEN d.priority_id ELSE @,
     !.due_date = IF Defined(d, "due_date") THEN DateParam(d) ELSE @,
     !.status = IF Defined(d, "status") THEN d.status ELSE @,
     !.updated_at = now]

(* an UPDATE that writes every column, NULL for the fields not supplied *)
UpdateRow_NullsUnsupplied(row, d) ==
  [row EXCEPT
     !.title = IF Defined(d, "title") THEN Val(d.title) ELSE @,
     !.description = Param(d, "description"),
     !.category_id = Param(d, "category_id"),
     !.priority_id = Param(d, "priority_id"),
     !.due_date = DateParam(d),
     !.status = IF Defined(d, "status") THEN d.status ELSE @,
     !.updated_at = now]

(* the row after UPDATE tasks SET ..., updated_at = NOW() *)
UpdateRow(row, d) ==
  [row EXCEPT
     !.title = IF Defined(d, "title") THEN Val(d.title) ELSE @,
     !.description = IF Defined(d, "description") THEN d.description ELSE @,
     !.category_id = IF Defined(d, "category_id") THEN d.category_id ELSE @,
     !.priority_id = IF Defined(d, "priority_id") THEN d.priority_id ELSE @,
     !.due_date = IF Defined(d, "due_date") THEN DateParam(d) ELSE @,
     !.status = IF Defined(d, "status") THEN d.status ELSE @,
     !.updated_at = now]

(* an update that writes the row before it validates the payload *)
RepoUpdate_ValidateAfterWrite(id, d) ==
  IF ~Exists(id) THEN Outcome("null", <<>>, tasks, nextId)
  ELSE IF validateUpdate(d) = "TypeError" THEN Fail("INTERNAL_ERROR")
  ELSE IF validateUpdate(d) # "ok"
       THEN Outcome(validateUpdate(d), <<>>,
                    [tasks EXCEPT ![id] = UpdateRow(tasks[id], d)], nextId)
  ELSE IF UpdateColumns(d) = {} THEN Outcome("ok", findById(id), tasks, nextId)
  ELSE IF ~ForeignKeysOk(UpdateRow(tasks[id], d)) THEN Fail("INTERNAL_ERROR")
  ELSE Outcome("ok", <<fromDatabaseRow(UpdateRow(tasks[id], d))>>,
               [tasks EXCEPT ![id] = UpdateRow(tasks[id], d)], nextId)

(* TaskRepository.update *)
RepoUpdate(id, d) ==
  IF ~Exists(id) THEN Outcome("null", <<>>, tasks, nextId)
  ELSE IF validateUpdate(d) = "TypeError" THEN Fail("INTERNAL_ERROR")
  ELSE IF validateUpdate(d) # "ok" THEN Fail(validateUpdate(d))
  ELSE IF UpdateColumns(d) = {} THEN Outcome("ok", findById(id), tasks, nextId)
  ELSE IF ~ForeignKeysOk(UpdateRow(tasks[id], d)) THEN Fail("INTERNAL_ERROR")
  ELSE Outcome("ok", <<fromDatabaseRow(UpdateRow(tasks[id], d))>>,
               [tasks EXCEPT ![id] = UpdateRow(tasks[id], d)], nextId)

(* TaskRepository.delete *)
RepoDelete(id) ==
  IF Exists(id)
  THEN Outcome("true", <<>>, [i \in DOMAIN tasks \ {id} |-> tasks[i]], nextId)
  ELSE Outcome("false", <<>>, tasks, nextId)

(* a status change that refuses to move a task back to pending *)
RepoChangeStatus_ForwardOnly(id, status) ==
  IF IsNull(status) \/ Val(status) \notin TaskStatus THEN Fail("INVALID_STATUS")
  ELSE IF ~Exists(id) THEN Outcome("null", <<>>, tasks, nextId)
  ELSE IF status = Some(PENDING) /\ tasks[id].status # Some(PENDING) THEN Fail("INVALID_STATUS")
  ELSE Outcome("ok",
               <<fromDatabaseRow([tasks[id] EXCEPT !.status = status, !.updated_at = now])>>,
               [tasks EXCEPT ![id] = [@ EXCEPT !.status = status, !.updated_at = now]],
               nextId)

(* TaskRepository.changeStatus *)
RepoChangeStatus(id, status) ==
  IF IsNull(status) \/ Val(status) \notin TaskStatus THEN Fail("INVALID_STATUS")
  ELSE IF ~Exists(id) THEN Outcome("null", <<>>, tasks, nextId)
  ELSE Outcome("ok",
               <<fromDatabaseRow([tasks[id] EXCEPT !.status = status, !.updated_at = now])>>,
               [tasks EXCEPT ![id] = [@ EXCEPT !.status = status, !.updated_at = now]],
               nextId)

(* ORDER BY due_date ASC NULLS LAST, created_at DESC: a may come before b *)
OrderedBefore(a, b) ==
  IF a.due_date # b.due_date
  THEN IsNull(b.due_date) \/ (~IsNull(a.due_date) /\ Val(a.due_date) < Val(b.due_date))
  ELSE a.created_at >= b.created_at

(* the orders in which a query may return the rows of S *)
SortedSeqs(S) ==
  {s \in [1..Cardinality(S) -> S] :
     /\ \A i, j \in 1..Cardinality(S) : i # j => s[i] # s[j]
     /\ \A i, j \in 1..Cardinality(S) : i < j => OrderedBefore(s[i], s[j])}

Rows == {tasks[i] : i \in DOMAIN tasks}
MapRows(s) == [i \in 1..Len(s) |-> fromDatabaseRow(s[i])]
(* Array.prototype.filter on the user_id of the tasks *)
FilterByUser(s, userId) == SelectSeq(s, LAMBDA t : t.user_id = userId)

(* TaskRepository.findByCategoryId / findByPriorityId: the possible results *)
findByCategoryId(categoryId) ==
  {MapRows(s) : s \in SortedSeqs({r \in Rows : r.category_id = Some(categoryId)})}
findByPriorityId(priorityId) ==
  {MapRows(s) : s \in SortedSeqs({r \in Rows : r.priority_id = Some(priorityId)})}

(* ILIKE: the pattern language of LIKE ("%" any string, "_" any one        *)
(* character, "\" makes the next character literal), letters compared      *)
(* without case                                                            *)
UpperSeq ==
  <<"A", "B", "C", "D", "E", "F", "G", "H", "I", "J", "K", "L", "M",
    "N", "O", "P", "Q", "R", "S", "T", "U", "V", "W", "X", "Y", "Z">>
LowerSeq ==
  <<"a", "b", "c", "d", "e", "f", "g", "h", "i", "j", "k", "l", "m",
    "n", "o", "p", "q", "r", "s", "t", "u", "v", "w", "x", "y", "z">>
ToLower(c) ==
  IF \E i \in 1..Len(UpperSeq) : UpperSeq[i] = c
  THEN LowerSeq[CHOOSE i \in 1..Len(UpperSeq) : UpperSeq[i] = c] ELSE c

RECURSIVE ILike(_, _)
ILike(str, pattern) ==
  IF pattern = <<>> THEN str = <<>>
  ELSE IF Head(pattern) = "%"
       THEN ILike(str, Tail(pattern)) \/ (str # <<>> /\ ILike(Tail(str), pattern))
  ELSE IF Head(pattern) = "_" THEN str # <<>> /\ ILike(Tail(str), Tail(pattern))
  ELSE IF Head(pattern) = "\\" /\ Len(pattern) >= 2
       THEN /\ str # <<>>
            /\ ToLower(Head(str)) = ToLower(pattern[2])
            /\ ILike(Tail(str), Tail(Tail(pattern)))
  ELSE /\ str # <<>>
       /\ ToLower(Head(str)) = ToLower(Head(pattern))
       /\ ILike(Tail(str), Tail(pattern))

(* title ILIKE $2 OR description ILIKE $2, with $2 = `%${searchTerm}%`;    *)
(* NULL ILIKE $2 is not true                                               *)
SearchMatches(row, searchTerm) ==
  LET pattern == <<"%">> \o searchTerm \o <<"%">>
  IN \/ ILike(row.title, pattern)
     \/ ~IsNull(row.description) /\ ILike(Val(row.description), pattern)

(* TaskRepository.search: the possible results *)
search(userId, searchTerm) ==
  {MapRows(s) : s \in SortedSeqs({r \in Rows : r.user_id = userId /\ SearchMatches(r, searchTerm)})}

(* a query of a listing (ITaskQuery): every filter is optional *)
NoQuery ==
  [category_id |-> Null, priority_id |-> Null, status |-> Null, due_date |-> Null,
   search |-> Null]

(* TaskRepository.findByUserId with queryParams: the filters given are      *)
(* joined with AND; the possible results                                   *)
QueryMatches(row, q) ==
  /\ IsNull(q.category_id) \/ row.category_id = q.category_id
  /\ IsNull(q.priority_id) \/ row.priority_id = q.priority_id
  /\ IsNull(q.status) \/ row.status = q.status
  /\ IsNull(q.due_date) \/ row.due_date = Some(DayOf(Val(q.due_date)))
  /\ IsNull(q.search) \/ Val(q.search) = <<>> \/ SearchMatches(row, Val(q.search))

findByUserIdQuery(userId, q) ==
  {MapRows(s) : s \in SortedSeqs({r \in Rows : r.user_id = userId /\ QueryMatches(r, q)})}

(* ------------------------------ TaskService ---------------------------- *)
(* an authorization that lets every caller through *)
authorizeTaskOperation_NoCheck(task, userId, isAdmin) == "ok"

(* TaskService.authorizeTaskOperation: "FORBIDDEN" when it throws *)
authorizeTaskOperation(task, userId, isAdmin) ==
  IF task.user_id # userId /\ ~isAdmin THEN "FORBIDDEN" ELSE "ok"

(* a due-date check that compares the instants, not the days *)
validateDueDate_NoFloor(dueDate) ==
  IF ~IsNaN(dueDate) /\ dueDate < now THEN "INVALID_DUE_DATE" ELSE "ok"

(* TaskService.validateDueDate, for a Date object: both sides are floored  *)
(* to the start of their day; an Invalid Date compares false.              *)
validateDueDate(dueDate) ==
  IF ~IsNaN(dueDate) /\ StartOfDay(dueDate) < StartOfDay(now)
  THEN "INVALID_DUE_DATE" ELSE "ok"

(* TaskService.createTask *)
createTask(d) ==
  IF Truthy(d, "due_date") /\ validateDueDate(Val(d.due_date)) # "ok"
  THEN Fail(validateDueDate(Val(d.due_date)))
  ELSE RepoCreate(d)

(* TaskService.updateTask: the caller's role never reaches the service, so *)
(* authorizeTaskOperation runs with its default isAdmin = false.           *)
updateTask(id, d, userId) ==
  IF ~Exists(id) THEN Outcome("null", <<>>, tasks, nextId)
  ELSE IF authorizeTaskOperation(tasks[id], userId, FALSE) # "ok" THEN Fail("FORBIDDEN")
  ELSE IF Truthy(d, "due_date") /\ validateDueDate(Val(d.due_date)) # "ok"
       THEN Fail(validateDueDate(Val(d.due_date)))
  ELSE RepoUpdate(id, d)

(* TaskService.deleteTask *)
deleteTask(id, userId) ==
  IF ~Exists(id) THEN Outcome("false", <<>>, tasks, nextId)
  ELSE IF authorizeTaskOperation(tasks[id], userId, FALSE) # "ok" THEN Fail("FORBIDDEN")
  ELSE RepoDelete(id)

(* a status change that validates the status before it looks the task up *)
changeTaskStatus_ValidateFirst(id, status, userId) ==
  IF IsNull(status) \/ Val(status) \notin TaskStatus THEN Fail("INVALID_STATUS")
  ELSE IF ~Exists(id) THEN Outcome("null", <<>>, tasks, nextId)
  ELSE IF authorizeTaskOperation(tasks[id], userId, FALSE) # "ok" THEN Fail("FORBIDDEN")
  ELSE RepoChangeStatus(id, status)

(* TaskService.changeTaskStatus *)
changeTaskStatus(id, status, userId) ==
  IF ~Exists(id) THEN Outcome("null", <<>>, tasks, nextId)
  ELSE IF authorizeTaskOperation(tasks[id], userId, FALSE) # "ok" THEN Fail("FORBIDDEN")
  ELSE IF IsNull(status) \/ Val(status) \notin TaskStatus THEN Fail("INVALID_STATUS")
  ELSE RepoChangeStatus(id, status)

(* a by-category listing that forgets the filter on the owner *)
getTasksByCategory_NoFilter(categoryId, userId) == findByCategoryId(categoryId)

(* TaskService.getTasksByCategory / getTasksByPriority: the possible results *)
getTasksByCategory(categoryId, userId) ==
  {FilterByUser(s, userId) : s \in findByCategoryId(categoryId)}
getTasksByPriority(priorityId, userId) ==
  {FilterByUser(s, userId) : s \in findByPriorityId(priorityId)}

(* TaskRepository.findByUserId without query parameters: the possible results *)
findByUserId(userId) ==
  {MapRows(s) : s \in SortedSeqs({r \in Rows : r.user_id = userId})}

(* TaskService.getUserTasks / searchTasks *)
getUserTasks(userId, q) == findByUserIdQuery(userId, q)
searchTasks(userId, searchTerm) == search(userId, searchTerm)

(* TaskController.getAllTasks: a search term in the request goes to        *)
(* searchTasks; without one the filters of the request go to getUserTasks  *)
getAllTasks(userId, q) ==
  IF ~IsNull(q.search) /\ Val(q.search) # <<>>
  THEN searchTasks(userId, Val(q.search))
  ELSE getUserTasks(userId, [q EXCEPT !.search = Null])

(* a due-soon filter with both bounds of the window exclusive *)
DueSoon_Exclusive(task, days) ==
  /\ ~IsNull(task.due_date)
  /\ task.status # Some("completed")
  /\ Val(task.due_date) < now + days * TicksPerDay
  /\ Val(task.due_date) > now

(* the filter of getTasksDueSoon: cutoffDate is the clock plus days days *)
DueSoon(task, days) ==
  /\ ~IsNull(task.due_date)
  /\ task.status # Some("completed")
  /\ Val(task.due_date) <= now + days * TicksPerDay
  /\ Val(task.due_date) >= now

(* TaskService.getTasksDueSoon: days is optional, the possible results *)
getTasksDueSoon(userId, days) ==
  LET n == IF IsNull(days) THEN DefaultDays ELSE Val(days)
  IN {SelectSeq(s, LAMBDA t : DueSoon(t, n)) : s \in findByUserId(userId)}

(* an overdue filter that forgets the status *)
Overdue_AnyStatus(task) ==
  /\ ~IsNull(task.due_date)
  /\ Val(task.due_date) < now

(* the filter of getOverdueTasks *)
Overdue(task) ==
  /\ ~IsNull(task.due_date)
  /\ task.status # Some("completed")
  /\ Val(task.due_date) < now

(* TaskService.getOverdueTasks: the possible results *)
getOverdueTasks(userId) ==
  {SelectSeq(s, LAMBDA t : Overdue(t)) : s \in findByUserId(userId)}

(* =============================== accounts ============================== *)
(* A string of an account (username, email, password) is a tuple of        *)
(* characters; a role is a string.  A bcrypt hash is the record of the     *)
(* password it was made from, a signed token the record of its payload and *)
(* of the secret that signed it.                                           *)
WhiteSpace == {" ", "\t", "\n"}
UpperChars ==
  {"A", "B", "C", "D", "E", "F", "G", "H", "I", "J", "K", "L", "M",
   "N", "O", "P", "Q", "R", "S", "T", "U", "V", "W", "X", "Y", "Z"}
LowerChars ==
  {"a", "b", "c", "d", "e", "f", "g", "h", "i", "j", "k", "l", "m",
   "n", "o", "p", "q", "r", "s", "t", "u", "v", "w", "x", "y", "z"}
DigitChars == {"0", "1", "2", "3", "4", "5", "6", "7", "8", "9"}
SpecialChars ==
  {"!", "@", "#", "$", "%", "^", "&", "*", "(", ")", "_", "+", "-", "=", "[", "]",
   "{", "}", ";", "'", ":", "\"", "\\", "|", ",", ".", "<", ">", "/", "?"}

Chars(str) == {str[i] : i \in 1..Len(str)}

(* String.prototype.trim *)
RECURSIVE TrimLeft(_)
TrimLeft(str) ==
  IF str # <<>> /\ Head(str) \in WhiteSpace THEN TrimLeft(Tail(str)) ELSE str
RECURSIVE TrimRight(_)
TrimRight(str) ==
  IF str # <<>> /\ str[Len(str)] \in WhiteSpace
  THEN TrimRight(SubSeq(str, 1, Len(str) - 1)) ELSE str
Trim(str) == TrimRight(TrimLeft(str))

(* JS falsiness of an optional string / of an optional role *)
FalsyStr(o) == IsNull(o) \/ Val(o) = <<>>
FalsyRole(o) == IsNull(o) \/ Val(o) = ""

(* ApiError: statusCode, code, message *)
Err(statusCode, code, message) ==
  [statusCode |-> statusCode, code |-> code, message |-> message]
NoErr == Err(0, "", "")

(* a validator that only looks at the length *)
validatePasswordStrength_LengthOnly(password) ==
  IF Len(password) < MinPasswordLen THEN "PASSWORD_TOO_SHORT" ELSE "ok"

(* validatePasswordStrength: the code of the first rule violated, or "ok" *)
validatePasswordStrength(password) ==
  IF Len(password) < MinPasswordLen THEN "PASSWORD_TOO_SHORT"
  ELSE IF Chars(password) \cap UpperChars = {} THEN "PASSWORD_NEEDS_UPPERCASE"
  ELSE IF Chars(password) \cap LowerChars = {} THEN "PASSWORD_NEEDS_LOWERCASE"
  ELSE IF Chars(password) \cap DigitChars = {} THEN "PASSWORD_NEEDS_NUMBER"
  ELSE IF Chars(password) \cap SpecialChars = {} THEN "PASSWORD_NEEDS_SPECIAL"
  ELSE "ok"

(* validatePassword: the common-password check is commented out *)
validatePassword(password) == validatePasswordStrength(password)

PasswordMessage(code) ==
  CASE code = "PASSWORD_TOO_SHORT" -> "Password must be at least 8 characters long"
    [] code = "PASSWORD_NEEDS_UPPERCASE" -> "Password must contain at least one uppercase letter"
    [] code = "PASSWORD_NEEDS_LOWERCASE" -> "Password must contain at least one lowercase letter"
    [] code = "PASSWORD_NEEDS_NUMBER" -> "Password must contain at least one number"
    [] code = "PASSWORD_NEEDS_SPECIAL" -> "Password must contain at least one special character"

(* bcrypt.hash and bcrypt.compare *)
Hash(password) == [bcrypt |-> password]
Compare(password, hash) == hash = Hash(password)

(* jwt.sign, generateTokens *)
Sign(payload, secret) == [payload |-> payload, secret |-> secret]
TokenPayload(user) ==
  [id |-> user.user_id, username |-> user.username, email |-> user.email, role |-> user.role]
generateTokens(user) ==
  [accessToken |-> Sign(TokenPayload(user), "SECRET"),
   refreshToken |-> Sign(TokenPayload(user), "REFRESH_SECRET")]

(* a projection that keeps the password hash *)
WithoutPassword_KeepsHash(user) == user

(* const { password_hash, ...userWithoutPassword } = user *)
WithoutPassword(user) == [f \in DOMAIN user \ {"password_hash"} |-> user[f]]

(* ----------------------------- UserRepository -------------------------- *)
(* /^[^\s@]+@[^\s@]+\.[^\s@]+$/ : one "@", no white space, something      *)
(* before the "@", and after it a "." with something on both sides         *)
EmailRegexTest(email) ==
  \E i \in 2..Len(email) :
    /\ email[i] = "@"
    /\ \A k \in 1..Len(email) : k # i => email[k] \notin WhiteSpace \cup {"@"}
    /\ \E j \in (i + 2)..(Len(email) - 1) : email[j] = "."

(* UserRepository.validateUserData: an error code, or "ok" *)
validateUserData(d) ==
  IF FalsyStr(d.username) \/ Len(Trim(Val(d.username))) < MinUsernameLen THEN "INVALID_USERNAME"
  ELSE IF FalsyStr(d.email) \/ ~EmailRegexTest(Val(d.email)) THEN "INVALID_EMAIL"
  ELSE IF ~FalsyRole(d.role) /\ Val(d.role) \notin {"user", "admin"} THEN "INVALID_ROLE"
  ELSE "ok"

UserDataMessage(code) ==
  CASE code = "INVALID_USERNAME" -> "Username must be at least 3 characters long"
    [] code = "INVALID_EMAIL" -> "Please provide a valid email address"
    [] code = "INVALID_ROLE" -> "Role must be either \"user\" or \"admin\""

(* an email check that never finds the email *)
emailExists_Never(U, email) == FALSE

(* SELECT COUNT( * ) FROM users WHERE email = $1 / username = $1 *)
emailExists(U, email) == \E id \in DOMAIN U : U[id].email = email
usernameExists(U, username) == \E id \in DOMAIN U : U[id].username = username

(* UserRepository.findById / findByEmail: the row, or nothing *)
UserFindById(U, id) == IF id \in DOMAIN U THEN <<U[id]>> ELSE <<>>
findByEmail(U, email) ==
  IF emailExists(U, email)
  THEN <<U[CHOOSE id \in DOMAIN U : U[id].email = email]>> ELSE <<>>

(* the columns UserRepository.findByIdSafe and findAll select *)
SafeColumns == {"user_id", "username", "email", "created_at", "role"}
Select(row, columns) == [f \in columns |-> row[f]]
findByIdSafe(U, id) == IF id \in DOMAIN U THEN <<Select(U[id], SafeColumns)>> ELSE <<>>

(* a users table without its UNIQUE constraints *)
UsersConstraintsOk_NoUnique(U, row) ==
  /\ Len(row.username) <= MaxUsernameLen
  /\ Len(row.email) <= MaxEmailLen

(* the UNIQUE constraints and the column widths of the users table *)
UsersConstraintsOk(U, row) ==
  /\ \A id \in DOMAIN U \ {row.user_id} :
       U[id].email # row.email /\ U[id].username # row.username
  /\ Len(row.username) <= MaxUsernameLen
  /\ Len(row.email) <= MaxEmailLen

(* the row INSERT INTO users ... builds *)
InsertUserRow(id, d) ==
  [user_id |-> id,
   username |-> Val(d.username),
   email |-> Val(d.email),
   password_hash |-> Hash(Val(d.password)),
   role |-> IF FalsyRole(d.role) THEN "user" ELSE Val(d.role),
   created_at |-> now,
   updated_at |-> now]

(* the row after UPDATE users SET ..., updated_at = NOW() *)
UpdateUserRow(row, d) ==
  [row EXCEPT
     !.username = IF FalsyStr(d.username) THEN @ ELSE Val(d.username),
     !.email = IF FalsyStr(d.email) THEN @ ELSE Val(d.email),
     !.role = IF FalsyRole(d.role) THEN @ ELSE Val(d.role),
     !.updated_at = now]

(* ------------------------------ UserService ---------------------------- *)
(* A call of the service is a process: its operation, its arguments a, its *)
(* position pc, its locals loc, its result (res "run" while in flight, ret *)
(* the returned value, err the ApiError thrown) and steps, the queries and *)
(* checks it has made, in order.  One step runs from one query of the      *)
(* database to the next; db is the users table with its SERIAL sequence.   *)
Proc(op, a) ==
  [op |-> op, a |-> a, pc |-> "start", res |-> "run", err |-> NoErr, ret |-> <<>>,
   steps |-> <<>>,
   loc |-> [existing |-> <<>>, data |-> IF op = "updateUser" THEN a.data ELSE <<>>]]

Done(p) == p.res # "run"
Throw(p, statusCode, code, message) ==
  [p EXCEPT !.res = code, !.err = Err(statusCode, code, message), !.pc = "done"]
Return(p, res, ret) == [p EXCEPT !.res = res, !.ret = ret, !.pc = "done"]
Goto(p, pc) == [p EXCEPT !.pc = pc]
Did(p, what) == [p EXCEPT !.steps = Append(@, what)]
St(p, db) == [p |-> p, db |-> db]

(* an authorization check that lets every caller through *)
IsAuthorized_Always(userId, currentUserId, isAdmin) == TRUE

(* the authorization check of updateUser and deleteUser: self or admin *)
IsAuthorized(userId, currentUserId, isAdmin) == ~(userId # currentUserId /\ ~isAdmin)

(* a payload that keeps its role whoever the caller is *)
StripRole_Never(d, isAdmin) == d

(* if (userData.role && !isAdmin) delete userData.role *)
StripRole(d, isAdmin) ==
  IF ~FalsyRole(d.role) /\ ~isAdmin THEN [d EXCEPT !.role = Null] ELSE d

(* UserService.register, with UserRepository.create *)
registerStep(p, db) ==
  LET d == p.a.data
      U == db.users
  IN CASE p.pc = "start" ->
            IF FalsyStr(d.email) \/ FalsyStr(d.username) \/ FalsyStr(d.password)
            THEN St(Throw(p, 400, "MISSING_REQUIRED_FIELDS",
                          "Email, username and password are required"), db)
            ELSE IF emailExists(U, Val(d.email))
            THEN St(Throw(Did(p, "emailExists"), 400, "EMAIL_EXISTS",
                          "Email is already in use"), db)
            ELSE St(Goto(Did(p, "emailExists"), "username"), db)
       [] p.pc = "username" ->
            LET q == Did(p, "usernameExists")
                v == Did(q, "validatePassword")
                code == validatePassword(Val(d.password))
                w == Did(v, "validateUserData")
            IN IF usernameExists(U, Val(d.username))
               THEN St(Throw(q, 400, "USERNAME_EXISTS", "Username is already in use"), db)
               ELSE IF code # "ok" THEN St(Throw(v, 400, code, PasswordMessage(code)), db)
               ELSE IF validateUserData(d) # "ok"
               THEN St(Throw(w, 400, validateUserData(d),
                             UserDataMessage(validateUserData(d))), db)
               ELSE St(Goto(w, "create.email"), db)
       [] p.pc = "create.email" ->
            IF emailExists(U, Val(d.email))
            THEN St(Throw(Did(p, "emailExists"), 400, "EMAIL_EXISTS",
                          "Email is already in use"), db)
            ELSE St(Goto(Did(p, "emailExists"), "create.username"), db)
       [] p.pc = "create.username" ->
            IF usernameExists(U, Val(d.username))
            THEN St(Throw(Did(p, "usernameExists"), 400, "USERNAME_EXISTS",
                          "Username is already in use"), db)
            ELSE St(Goto(Did(Did(p, "usernameExists"), "validatePassword"), "insert"), db)
       [] p.pc = "insert" ->
            LET row == InsertUserRow(db.nextUserId, d)
                q == Did(p, "INSERT")
            IN IF ~UsersConstraintsOk(U, row)
               THEN St(Throw(q, 500, "SERVER_ERROR", "Error creating user"),
                       [db EXCEPT !.nextUserId = @ + 1])
               ELSE St(Return(q, "ok", <<[user |-> WithoutPassword(row),
                                          accessToken |-> generateTokens(row).accessToken,
                                          refreshToken |-> generateTokens(row).refreshToken]>>),
                       [users |-> [i \in DOMAIN U \cup {row.user_id} |->
                                     IF i = row.user_id THEN row ELSE U[i]],
                        nextUserId |-> db.nextUserId + 1])

(* a login that tells an unknown email from a wrong password *)
loginStep_RevealsEmail(p, db) ==
  LET user == findByEmail(db.users, p.a.email)
      q == Did(p, "findByEmail")
  IN IF IsNull(user)
     THEN St(Throw(q, 404, "USER_NOT_FOUND", "User not found"), db)
     ELSE IF ~Compare(p.a.password, Val(user).password_hash)
     THEN St(Throw(Did(q, "compare"), 401, "INVALID_CREDENTIALS", "Invalid credentials"), db)
     ELSE St(Return(Did(q, "compare"), "ok",
                    <<[user |-> WithoutPassword(Val(user)),
                       accessToken |-> generateTokens(Val(user)).accessToken,
                       refreshToken |-> generateTokens(Val(user)).refreshToken]>>), db)

(* UserService.login *)
loginStep(p, db) ==
  LET user == findByEmail(db.users, p.a.email)
      q == Did(p, "findByEmail")
  IN IF IsNull(user)
     THEN St(Throw(q, 401, "INVALID_CREDENTIALS", "Invalid credentials"), db)
     ELSE IF ~Compare(p.a.password, Val(user).password_hash)
     THEN St(Throw(Did(q, "compare"), 401, "INVALID_CREDENTIALS", "Invalid credentials"), db)
     ELSE St(Return(Did(q, "compare"), "ok",
                    <<[user |-> WithoutPassword(Val(user)),
                       accessToken |-> generateTokens(Val(user)).accessToken,
                       refreshToken |-> generateTokens(Val(user)).refreshToken]>>), db)

(* UserService.getUserById *)
getUserByIdStep(p, db) ==
  LET user == findByIdSafe(db.users, p.a.userId)
  IN St(Return(Did(p, "findByIdSafe"), IF IsNull(user) THEN "null" ELSE "ok", user), db)

(* UserService.updateUser, with UserRepository.update *)
updateUserStep(p, db) ==
  LET a == p.a
      U == db.users
      d == p.loc.data
      existing == Val(p.loc.existing)
  IN CASE p.pc = "start" ->
            LET q == Did(p, "findById")
            IN IF IsNull(UserFindById(U, a.userId)) THEN St(Return(q, "null", <<>>), db)
               ELSE IF ~IsAuthorized(a.userId, a.currentUserId, a.isAdmin)
               THEN St(Throw(q, 403, "FORBIDDEN",
                             "You are not authorized to update this profile"), db)
               ELSE St(Goto([q EXCEPT !.loc.existing = UserFindById(U, a.userId)], "email"), db)
       [] p.pc = "email" ->
            IF ~FalsyStr(d.email) /\ Val(d.email) # existing.email
            THEN IF emailExists(U, Val(d.email))
                 THEN St(Throw(Did(p, "emailExists"), 400, "EMAIL_EXISTS",
                               "Email is already in use"), db)
                 ELSE St(Goto(Did(p, "emailExists"), "username"), db)
            ELSE St(Goto(p, "username"), db)
       [] p.pc = "username" ->
            LET strip(q) == [q EXCEPT !.loc.data = StripRole(d, a.isAdmin)]
            IN IF ~FalsyStr(d.username) /\ Val(d.username) # existing.username
               THEN IF usernameExists(U, Val(d.username))
                    THEN St(Throw(Did(p, "usernameExists"), 400, "USERNAME_EXISTS",
                                  "Username is already in use"), db)
                    ELSE St(Goto(strip(Did(p, "usernameExists")), "update.find"), db)
               ELSE St(Goto(strip(p), "update.find"), db)
       [] p.pc = "update.find" ->
            LET q == Did(p, "findById")
            IN IF IsNull(UserFindById(U, a.userId)) THEN St(Return(q, "null", <<>>), db)
               ELSE St(Goto([q EXCEPT !.loc.existing = UserFindById(U, a.userId)],
                            "update.username"), db)
       [] p.pc = "update.username" ->
            IF ~FalsyStr(d.username) /\ Val(d.username) # existing.username
            THEN IF usernameExists(U, Val(d.username))
                 THEN St(Throw(Did(p, "usernameExists"), 400, "USERNAME_EXISTS",
                               "Username is already in use"), db)
                 ELSE St(Goto(Did(p, "usernameExists"), "update.email"), db)
            ELSE St(Goto(p, "update.email"), db)
       [] p.pc = "update.email" ->
            IF ~FalsyStr(d.email) /\ Val(d.email) # existing.email
            THEN IF emailExists(U, Val(d.email))
                 THEN St(Throw(Did(p, "emailExists"), 400, "EMAIL_EXISTS",
                               "Email is already in use"), db)
                 ELSE St(Goto(Did(p, "emailExists"), "update"), db)
            ELSE St(Goto(p, "update"), db)
       [] p.pc = "update" ->
            IF FalsyStr(d.username) /\ FalsyStr(d.email) /\ FalsyRole(d.role)
            THEN St(Return(p, "ok", <<WithoutPassword(existing)>>), db)
            ELSE IF a.userId \notin DOMAIN U
            THEN St(Return(Did(p, "UPDATE"), "null", <<>>), db)
            ELSE IF ~UsersConstraintsOk(U, UpdateUserRow(U[a.userId], d))
            THEN St(Throw(Did(p, "UPDATE"), 500, "SERVER_ERROR", "Error updating user"), db)
            ELSE St(Return(Did(p, "UPDATE"), "ok",
                           <<WithoutPassword(UpdateUserRow(U[a.userId], d))>>),
                    [db EXCEPT !.users[a.userId] = UpdateUserRow(U[a.userId], d)])

(* UserController.updateUser (PUT /api/users/:id): req.user holds the      *)
(* claims of the caller's token; self or admin, then User.update, that is  *)
(* UserRepository.update, with the request body as it came                 *)
controllerUpdateUserStep(p, db) ==
  IF p.pc = "start"
  THEN IF p.a.user.id # p.a.userId /\ p.a.user.role # "admin"
       THEN St(Throw(p, 403, "FORBIDDEN", "You are not authorized to update this profile"), db)
       ELSE St(Goto([p EXCEPT !.loc.data = p.a.data], "update.find"), db)
  ELSE LET r == updateUserStep(p, db)
       IN IF r.p.res = "null"
          THEN St(Throw(r.p, 404, "USER_NOT_FOUND", "User not found"), r.db)
          ELSE r

(* UserService.deleteUser, with UserRepository.delete *)
deleteUserStep(p, db) ==
  LET a == p.a
      U == db.users
  IN CASE p.pc = "start" ->
            LET q == Did(p, "findById")
            IN IF IsNull(UserFindById(U, a.userId)) THEN St(Return(q, "false", <<>>), db)
               ELSE IF ~IsAuthorized(a.userId, a.currentUserId, a.isAdmin)
               THEN St(Throw(q, 403, "FORBIDDEN",
                             "You are not authorized to delete this account"), db)
               ELSE St(Goto(q, "delete"), db)
       [] p.pc = "delete" ->
            IF a.userId \in DOMAIN U
            THEN St(Return(Did(p, "DELETE"), "true", <<>>),
                    [db EXCEPT !.users = [i \in DOMAIN U \ {a.userId} |-> U[i]]])
            ELSE St(Return(Did(p, "DELETE"), "false", <<>>), db)

(* a password change without the check that the new password differs *)
changePasswordStep_NoSameCheck(p, db) ==
  LET a == p.a
      U == db.users
      user == UserFindById(U, a.userId)
      code == validatePassword(a.newPassword)
  IN CASE p.pc = "start" ->
            LET q == Did(p, "findById")
                c == Did(q, "compare")
                v == Did(c, "validatePassword")
            IN IF IsNull(user) THEN St(Throw(q, 404, "USER_NOT_FOUND", "User not found"), db)
               ELSE IF ~Compare(a.currentPassword, Val(user).password_hash)
               THEN St(Throw(c, 400, "INVALID_CURRENT_PASSWORD",
                             "Current password is incorrect"), db)
               ELSE IF code # "ok" THEN St(Throw(v, 400, code, PasswordMessage(code)), db)
               ELSE St(Goto(Did(v, "validatePassword"), "update"), db)
       [] p.pc = "update" ->
            IF a.userId \in DOMAIN U
            THEN St(Return(Did(p, "UPDATE"), "true", <<>>),
                    [db EXCEPT !.users[a.userId] =
                       [@ EXCEPT !.password_hash = Hash(a.newPassword), !.updated_at = now]])
            ELSE St(Return(Did(p, "UPDATE"), "false", <<>>), db)

(* UserService.changePassword, with UserRepository.changePassword *)
changePasswordStep(p, db) ==
  LET a == p.a
      U == db.users
      user == UserFindById(U, a.userId)
      code == validatePassword(a.newPassword)
  IN CASE p.pc = "start" ->
            LET q == Did(p, "findById")
                c == Did(q, "compare")
                v == Did(c, "validatePassword")
                e == Did(v, "samePassword")
            IN IF IsNull(user) THEN St(Throw(q, 404, "USER_NOT_FOUND", "User not found"), db)
               ELSE IF ~Compare(a.currentPassword, Val(user).password_hash)
               THEN St(Throw(c, 400, "INVALID_CURRENT_PASSWORD",
                             "Current password is incorrect"), db)
               ELSE IF code # "ok" THEN St(Throw(v, 400, code, PasswordMessage(code)), db)
               ELSE IF a.currentPassword = a.newPassword
               THEN St(Throw(e, 400, "PASSWORD_SAME",
                             "New password must be different from current password"), db)
               ELSE St(Goto(Did(e, "validatePassword"), "update"), db)
       [] p.pc = "update" ->
            IF a.userId \in DOMAIN U
            THEN St(Return(Did(p, "UPDATE"), "true", <<>>),
                    [db EXCEPT !.users[a.userId] =
                       [@ EXCEPT !.password_hash = Hash(a.newPassword), !.updated_at = now]])
            ELSE St(Return(Did(p, "UPDATE"), "false", <<>>), db)

(* verifyToken: jwt.verify with the secret of the token's domain; the      *)
(* decoded payload, or nothing                                             *)
verifyToken(token, isRefreshToken) ==
  LET secret == IF isRefreshToken THEN "REFRESH_SECRET" ELSE "SECRET"
  IN IF token.secret = secret THEN <<token.payload>> ELSE <<>>

(* a refresh that never loads the user *)
refreshAccessTokenStep_NoLookup(p, db) ==
  LET payload == verifyToken(p.a.refreshToken, TRUE)
  IN IF IsNull(payload) THEN St(Return(Did(p, "verifyToken"), "null", <<>>), db)
     ELSE St(Return(Did(p, "verifyToken"), "ok", <<Sign(Val(payload), "SECRET")>>), db)

(* a refresh that copies the claims of the token it was given *)
refreshAccessTokenStep_OldClaims(p, db) ==
  LET payload == verifyToken(p.a.refreshToken, TRUE)
      q == Did(p, "verifyToken")
      f == Did(q, "findById")
  IN IF IsNull(payload) THEN St(Return(q, "null", <<>>), db)
     ELSE IF IsNull(UserFindById(db.users, Val(payload).id))
     THEN St(Return(f, "null", <<>>), db)
     ELSE St(Return(f, "ok", <<Sign(Val(payload), "SECRET")>>), db)

(* UserService.refreshAccessToken *)
refreshAccessTokenStep(p, db) ==
  LET payload == verifyToken(p.a.refreshToken, TRUE)
      q == Did(p, "verifyToken")
      f == Did(q, "findById")
  IN IF IsNull(payload) THEN St(Return(q, "null", <<>>), db)
     ELSE LET user == UserFindById(db.users, Val(payload).id)
          IN IF IsNull(user) THEN St(Return(f, "null", <<>>), db)
             ELSE St(Return(f, "ok", <<generateTokens(Val(user)).accessToken>>), db)

(* a password reset that tells whether the email is known *)
initiatePasswordResetStep_Reveals(p, db) ==
  LET user == findByEmail(db.users, p.a.email)
      q == Did(p, "findByEmail")
  IN IF IsNull(user) THEN St(Throw(q, 404, "USER_NOT_FOUND", "User not found"), db)
     ELSE St(Return(q, "ok", <<[success |-> TRUE, resetToken |-> Some(p.a.random)]>>), db)

(* UserService.initiatePasswordReset; a.random is the outcome of           *)
(* crypto.randomBytes(32).toString('hex')                                  *)
initiatePasswordResetStep(p, db) ==
  LET user == findByEmail(db.users, p.a.email)
      q == Did(p, "findByEmail")
  IN IF IsNull(user)
     THEN St(Return(q, "ok", <<[success |-> TRUE, resetToken |-> Null]>>), db)
     ELSE St(Return(q, "ok", <<[success |-> TRUE, resetToken |-> Some(p.a.random)]>>), db)

(* UserService.resetPassword: the token is not looked at, nothing is stored *)
resetPasswordStep(p, db) ==
  LET code == validatePassword(p.a.newPassword)
      q == Did(p, "validatePassword")
  IN IF code # "ok" THEN St(Throw(q, 400, code, PasswordMessage(code)), db)
     ELSE St(Return(q, "true", <<>>), db)

(* one step of a call *)
Step(p, db) ==
  CASE p.op = "register" -> registerStep(p, db)
    [] p.op = "login" -> loginStep(p, db)
    [] p.op = "getUserById" -> getUserByIdStep(p, db)
    [] p.op = "updateUser" -> updateUserStep(p, db)
    [] p.op = "UserController.updateUser" -> controllerUpdateUserStep(p, db)
    [] p.op = "deleteUser" -> deleteUserStep(p, db)
    [] p.op = "changePassword" -> changePasswordStep(p, db)
    [] p.op = "refreshAccessToken" -> refreshAccessTokenStep(p, db)
    [] p.op = "initiatePasswordReset" -> initiatePasswordResetStep(p, db)
    [] p.op = "resetPassword" -> resetPasswordStep(p, db)

(* a call that runs to its end with no other call in between *)
RECURSIVE Run(_, _)
Run(p, db) ==
  IF Done(p) THEN St(p, db)
  ELSE LET r == Step(p, db) IN Run(r.p, r.db)

(* --------------------- TaskService, query by query --------------------- *)
(* The calls of the task service as processes, for calls that run          *)
(* concurrently: T is the tasks table a step finds, and each step runs     *)
(* from one query to the next.                                             *)
TaskMessage(code) ==
  CASE code = "NO_UPDATE_DATA" -> "No data provided for update"
    [] code = "INVALID_TITLE" -> "Task title cannot be empty"
    [] code = "INVALID_TITLE_LENGTH" -> "Task title must be 100 characters or less"
    [] code = "INVALID_DUE_DATE" -> "Invalid due date format"
    [] code = "INVALID_STATUS" ->
         "Status must be one of: pending, in_progress, completed, cancelled"

(* TaskService.getTaskById *)
getTaskByIdStep(p, T) ==
  IF p.a.taskId \in DOMAIN T
  THEN St(Return(Did(p, "findById"), "ok", <<fromDatabaseRow(T[p.a.taskId])>>), T)
  ELSE St(Return(Did(p, "findById"), "null", <<>>), T)

(* TaskService.updateTask, with TaskRepository.update: findById, findById   *)
(* again, UPDATE ... RETURNING; result.rows[0] of an UPDATE that found no   *)
(* row is undefined, and Task.fromDatabaseRow throws on it                  *)
updateTaskStep(p, T) ==
  LET id == p.a.taskId
      d == p.a.data
  IN CASE p.pc = "start" ->
            LET q == Did(p, "findById")
            IN IF id \notin DOMAIN T THEN St(Return(q, "null", <<>>), T)
               ELSE IF authorizeTaskOperation(T[id], p.a.userId, FALSE) # "ok"
               THEN St(Throw(q, 403, "FORBIDDEN",
                             "Not authorized to perform this action on this task"), T)
               ELSE IF Truthy(d, "due_date") /\ validateDueDate(Val(d.due_date)) # "ok"
               THEN St(Throw(q, 400, "INVALID_DUE_DATE", "Due date cannot be in the past"), T)
               ELSE St(Goto(q, "repo.find"), T)
       [] p.pc = "repo.find" ->
            LET q == Did(p, "findById")
                code == validateUpdate(d)
            IN IF id \notin DOMAIN T THEN St(Return(q, "null", <<>>), T)
               ELSE IF code = "TypeError"
               THEN St(Throw(q, 500, "SERVER_ERROR", "Error updating task"), T)
               ELSE IF code # "ok" THEN St(Throw(q, 400, code, TaskMessage(code)), T)
               ELSE IF UpdateColumns(d) = {}
               THEN St(Return(q, "ok", <<fromDatabaseRow(T[id])>>), T)
               ELSE St(Goto(q, "update"), T)
       [] p.pc = "update" ->
            LET q == Did(p, "UPDATE")
            IN IF id \notin DOMAIN T \/ ~ForeignKeysOk(UpdateRow(T[id], d))
               THEN St(Throw(q, 500, "SERVER_ERROR", "Error updating task"), T)
               ELSE St(Return(q, "ok", <<fromDatabaseRow(UpdateRow(T[id], d))>>),
                       [T EXCEPT ![id] = UpdateRow(T[id], d)])

(* a delete that reports success and leaves the row *)
deleteTaskStep_KeepsRow(p, T) ==
  LET id == p.a.taskId
  IN CASE p.pc = "start" ->
            LET q == Did(p, "findById")
            IN IF id \notin DOMAIN T THEN St(Return(q, "false", <<>>), T)
               ELSE IF authorizeTaskOperation(T[id], p.a.userId, FALSE) # "ok"
               THEN St(Throw(q, 403, "FORBIDDEN",
                             "Not authorized to perform this action on this task"), T)
               ELSE St(Goto(q, "delete"), T)
       [] p.pc = "delete" ->
            St(Return(Did(p, "DELETE"), IF id \in DOMAIN T THEN "true" ELSE "false", <<>>), T)

(* TaskService.deleteTask, with TaskRepository.delete: findById, DELETE *)
deleteTaskStep(p, T) ==
  LET id == p.a.taskId
  IN CASE p.pc = "start" ->
            LET q == Did(p, "findById")
            IN IF id \notin DOMAIN T THEN St(Return(q, "false", <<>>), T)
               ELSE IF authorizeTaskOperation(T[id], p.a.userId, FALSE) # "ok"
               THEN St(Throw(q, 403, "FORBIDDEN",
                             "Not authorized to perform this action on this task"), T)
               ELSE St(Goto(q, "delete"), T)
       [] p.pc = "delete" ->
            IF id \in DOMAIN T
            THEN St(Return(Did(p, "DELETE"), "true", <<>>), [i \in DOMAIN T \ {id} |-> T[i]])
            ELSE St(Return(Did(p, "DELETE"), "false", <<>>), T)

(* TaskService.changeTaskStatus, with TaskRepository.changeStatus: findById, *)
(* UPDATE ... RETURNING, null when the UPDATE found no row                  *)
changeTaskStatusStep(p, T) ==
  LET id == p.a.taskId
      status == p.a.status
      row == [T[id] EXCEPT !.status = status, !.updated_at = now]
  IN CASE p.pc = "start" ->
            LET q == Did(p, "findById")
            IN IF id \notin DOMAIN T THEN St(Return(q, "null", <<>>), T)
               ELSE IF authorizeTaskOperation(T[id], p.a.userId, FALSE) # "ok"
               THEN St(Throw(q, 403, "FORBIDDEN",
                             "Not authorized to perform this action on this task"), T)
               ELSE IF IsNull(status) \/ Val(status) \notin TaskStatus
               THEN St(Throw(q, 400, "INVALID_STATUS", TaskMessage("INVALID_STATUS")), T)
               ELSE St(Goto(q, "update"), T)
       [] p.pc = "update" ->
            LET q == Did(p, "UPDATE")
            IN IF id \notin DOMAIN T THEN St(Return(q, "null", <<>>), T)
               ELSE St(Return(q, "ok", <<fromDatabaseRow(row)>>), [T EXCEPT ![id] = row])

(* one step of a call of the task service *)
TaskStep(p, T) ==
  CASE p.op = "getTaskById" -> getTaskByIdStep(p, T)
    [] p.op = "updateTask" -> updateTaskStep(p, T)
    [] p.op = "deleteTask" -> deleteTaskStep(p, T)
    [] p.op = "changeTaskStatus" -> changeTaskStatusStep(p, T)

(* UserRepository.findAll: WHERE username LIKE, email LIKE, role =, in the *)
(* possible orders of ORDER BY created_at DESC                             *)
Contains(str, sub) ==
  \E i \in 0..(Len(str) - Len(sub)) : SubSeq(str, i + 1, i + Len(sub)) = sub

Matches(row, filter) ==
  /\ FalsyStr(filter.username) \/ Contains(row.username, Val(filter.username))
  /\ FalsyStr(filter.email) \/ Contains(row.email, Val(filter.email))
  /\ FalsyRole(filter.role) \/ row.role = Val(filter.role)

UserFindAll(U, filter) ==
  LET S == {Select(U[id], SafeColumns) : id \in {i \in DOMAIN U : Matches(U[i], filter)}}
  IN {s \in [1..Cardinality(S) -> S] :
        /\ \A i, j \in 1..Cardinality(S) : i # j => s[i] # s[j]
        /\ \A i, j \in 1..Cardinality(S) : i < j => s[i].created_at >= s[j].created_at}

(* UserService.getAllUsers: the possible results *)
getAllUsers(U, filter) ==
  {[i \in 1..Len(s) |-> WithoutPassword(s[i])] : s \in UserFindAll(U, filter)}

(* ------------------------------- actions ------------------------------- *)
NoCall ==
  [op |-> "none", userId |-> 0, id |-> 0, data |-> EmptyData, status |-> Null,
   res |-> "none", ret |-> <<>>]

Call(op, userId, id, data, status, res, ret) ==
  [op |-> op, userId |-> userId, id |-> id, data |-> data, status |-> status,
   res |-> res, ret |-> ret]

(* the two accounts of the task service: a user and an admin, registered *)
(* before the server started                                              *)
StrongPassword == <<"P", "a", "s", "s", "w", "0", "r", "d", "!">>
AccountName(u) == IF u = 2 THEN <<"a", "d", "a">> ELSE <<"b", "o", "b">>
Accounts ==
  [u \in UserIds |->
     [user_id |-> u,
      username |-> AccountName(u),
      email |-> AccountName(u) \o <<"@", "x", ".", "i", "o">>,
      password_hash |-> Hash(StrongPassword),
      role |-> Role(u),
      created_at |-> 0,
      updated_at |-> 0]]

(* no call of the account service is in flight *)
ProcIds == {1, 2}
Idle == [op |-> "idle", res |-> "idle"]
NoProcs == [i \in ProcIds |-> Idle]

(* an empty tasks table, the server started at instant t *)
InitAt(t) ==
  /\ tasks = <<>>
  /\ nextId = 1
  /\ now = t
  /\ last = NoCall
  /\ calls = 0
  /\ users = Accounts
  /\ nextUserId = Cardinality(UserIds) + 1
  /\ procs = NoProcs
  /\ held = {}

Init == InitAt(TicksPerDay)

Apply(o, call) ==
  /\ tasks' = o.tasks
  /\ nextId' = o.nextId
  /\ last' = call
  /\ UNCHANGED <<now, accounts>>

CreateTask(d) ==
  /\ nextId <= MaxTasks
  /\ LET o == createTask(d)
     IN Apply(o, Call("createTask", 0, 0, d, Null, o.res, o.ret))

UpdateTask(id, d, userId) ==
  LET o == updateTask(id, d, userId)
  IN Apply(o, Call("updateTask", userId, id, d, Null, o.res, o.ret))

DeleteTask(id, userId) ==
  LET o == deleteTask(id, userId)
  IN Apply(o, Call("deleteTask", userId, id, EmptyData, Null, o.res, o.ret))

ChangeTaskStatus(id, status, userId) ==
  LET o == changeTaskStatus(id, status, userId)
  IN Apply(o, Call("changeTaskStatus", userId, id, EmptyData, status, o.res, o.ret))

GetTasksByCategory(categoryId, userId) ==
  \E r \in getTasksByCategory(categoryId, userId) :
    /\ last' = Call("getTasksByCategory", userId, categoryId, EmptyData, Null, "ok", r)
    /\ UNCHANGED <<tasks, nextId, now, accounts>>

GetTasksByPriority(priorityId, userId) ==
  \E r \in getTasksByPriority(priorityId, userId) :
    /\ last' = Call("getTasksByPriority", userId, priorityId, EmptyData, Null, "ok", r)
    /\ UNCHANGED <<tasks, nextId, now, accounts>>

(* a listing: the call with its days argument *)
Listing(op, userId, days, ret) ==
  [op |-> op, userId |-> userId, id |-> 0, data |-> EmptyData, status |-> Null,
   res |-> "ok", ret |-> ret, days |-> days]

GetTasksDueSoon(userId, days) ==
  \E r \in getTasksDueSoon(userId, days) :
    /\ last' = Listing("getTasksDueSoon", userId, days, r)
    /\ UNCHANGED <<tasks, nextId, now, accounts>>

GetOverdueTasks(userId) ==
  \E r \in getOverdueTasks(userId) :
    /\ last' = Listing("getOverdueTasks", userId, Null, r)
    /\ UNCHANGED <<tasks, nextId, now, accounts>>

(* GET /api/tasks with the query of the request *)
GetAllTasks(userId, q) ==
  \E r \in getAllTasks(userId, q) :
    /\ last' = [op |-> "getAllTasks", userId |-> userId, query |-> q, res |-> "ok", ret |-> r]
    /\ UNCHANGED <<tasks, nextId, now, accounts>>

(* FOREIGN KEY (user_id) REFERENCES users ON DELETE CASCADE *)
Cascade(T, U) == [i \in {j \in DOMAIN T : T[j].user_id \in DOMAIN U} |-> T[i]]

(* a call of the account service that runs alone; last is the finished call *)
UserCall(p) ==
  LET r == Run(p, [users |-> users, nextUserId |-> nextUserId])
  IN /\ users' = r.db.users
     /\ nextUserId' = r.db.nextUserId
     /\ tasks' = Cascade(tasks, r.db.users)
     /\ last' = r.p
     /\ UNCHANGED <<nextId, now, procs>>

Register(d) ==
  /\ nextUserId <= MaxUsers
  /\ UserCall(Proc("register", [data |-> d]))

Login(email, password) ==
  UserCall(Proc("login", [email |-> email, password |-> password]))

GetUserById(userId) == UserCall(Proc("getUserById", [userId |-> userId]))

GetAllUsers(filter) ==
  \E r \in getAllUsers(users, filter) :
    /\ last' = [op |-> "getAllUsers", a |-> [filter |-> filter], res |-> "ok",
                err |-> NoErr, ret |-> <<r>>]
    /\ UNCHANGED <<tasks, nextId, now, calls, accounts>>

UpdateUser(userId, d, currentUserId, isAdmin) ==
  UserCall(Proc("updateUser", [userId |-> userId, data |-> d,
                               currentUserId |-> currentUserId, isAdmin |-> isAdmin]))

DeleteUser(userId, currentUserId, isAdmin) ==
  UserCall(Proc("deleteUser", [userId |-> userId, currentUserId |-> currentUserId,
                               isAdmin |-> isAdmin]))

ChangePassword(userId, currentPassword, newPassword) ==
  UserCall(Proc("changePassword", [userId |-> userId, currentPassword |-> currentPassword,
                                   newPassword |-> newPassword]))

ControllerUpdateUser(userId, d, reqUser) ==
  UserCall(Proc("UserController.updateUser", [userId |-> userId, data |-> d, user |-> reqUser]))

RefreshAccessToken(refreshToken) ==
  UserCall(Proc("refreshAccessToken", [refreshToken |-> refreshToken]))

InitiatePasswordReset(email, random) ==
  UserCall(Proc("initiatePasswordReset", [email |-> email, random |-> random]))

ResetPassword(resetToken, newPassword) ==
  UserCall(Proc("resetPassword", [resetToken |-> resetToken, newPassword |-> newPassword]))

(* the client keeps the refresh token a register or a login returned, or   *)
(* drops it; the call is not one of a bounded session                      *)
Kept(A) ==
  /\ A
  /\ held' = IF last'.op \in {"register", "login"} /\ last'.res = "ok"
             THEN held \cup {last'.ret[1].refreshToken} ELSE held
  /\ UNCHANGED calls
Dropped(A) == A /\ UNCHANGED <<held, calls>>

(* a call starts, on a connection that has none in flight *)
Begin(i, p) ==
  /\ procs[i].res # "run"
  /\ p.op = "register" => nextUserId <= MaxUsers
  /\ procs' = [procs EXCEPT ![i] = p]
  /\ UNCHANGED <<tasks, nextId, now, last, calls, users, nextUserId, held>>

(* a call in flight takes its next step *)
Continue(i) ==
  /\ procs[i].res = "run"
  /\ LET r == Step(procs[i], [users |-> users, nextUserId |-> nextUserId])
     IN /\ users' = r.db.users
        /\ nextUserId' = r.db.nextUserId
        /\ tasks' = Cascade(tasks, r.db.users)
        /\ procs' = [procs EXCEPT ![i] = r.p]
  /\ UNCHANGED <<nextId, now, last, calls, held>>

(* a call of the task service starts, on a connection not used before *)
BeginTask(i, p) ==
  /\ procs[i] = Idle
  /\ procs' = [procs EXCEPT ![i] = p]
  /\ UNCHANGED <<tasks, nextId, now, last, calls, users, nextUserId, held>>

(* a call of the task service in flight takes its next step *)
ContinueTask(i) ==
  /\ procs[i].res = "run"
  /\ LET r == TaskStep(procs[i], tasks)
     IN /\ tasks' = r.db
        /\ procs' = [procs EXCEPT ![i] = r.p]
  /\ UNCHANGED <<nextId, now, last, calls, users, nextUserId, held>>

(* getTaskById, one query, after the calls in flight or between their steps *)
GetTaskById(taskId) ==
  LET r == TaskStep(Proc("getTaskById", [taskId |-> taskId]), tasks)
  IN /\ last' = r.p
     /\ UNCHANGED <<tasks, nextId, now, accounts>>

(* the clock advances *)
Tick ==
  /\ now < MaxNow
  /\ now' = now + 1
  /\ UNCHANGED <<tasks, nextId, last, accounts>>

(* ------------------------------- inputs -------------------------------- *)
TitleA == <<"a">>
TitleB == <<"b">>
BlankTitle == <<" ">>
LongTitle == [i \in 1..(MaxTitleLen + 1) |-> "a"]

(* the ids a caller may name: every id the table can hold, and one more *)
TaskIds == 1..(MaxTasks + 1)

NewTask(u, title) == With(With(EmptyData, "user_id", Some(u)), "title", Some(title))

(* Spec: who may do what.  Small payloads, every caller, every id. *)
Creates ==
  {NewTask(u, TitleA) : u \in UserIds} \cup {With(EmptyData, "title", Some(TitleA))}

Updates ==
  {EmptyData,
   With(EmptyData, "title", Some(TitleB)),
   With(EmptyData, "status", Some("bogus")),
   WithUndefined(EmptyData, "title")}
    \cup {With(With(EmptyData, "user_id", Some(u)), "title", Some(TitleB)) : u \in UserIds}

Statuses == {Some("completed"), Some("bogus")}

Next ==
  \/ \E d \in Creates : CreateTask(d) /\ UNCHANGED calls
  \/ \E id \in TaskIds, d \in Updates, u \in UserIds : UpdateTask(id, d, u) /\ UNCHANGED calls
  \/ \E id \in TaskIds, u \in UserIds : DeleteTask(id, u) /\ UNCHANGED calls
  \/ \E id \in TaskIds, st \in Statuses, u \in UserIds :
       ChangeTaskStatus(id, st, u) /\ UNCHANGED calls

Spec == Init /\ [][Next]_vars

(* SpecStatus: the status column.  Every status value a payload can carry. *)
StatusValues ==
  {Some(st) : st \in TaskStatus} \cup {Some("bogus"), Some(""), Null}

StatusCreates ==
  {NewTask(1, TitleA)}
    \cup {With(NewTask(1, TitleA), "status", Some(st)) : st \in {"completed", "bogus"}}

StatusUpdates == {With(EmptyData, "status", st) : st \in StatusValues}

NextStatus ==
  \/ \E d \in StatusCreates : CreateTask(d) /\ UNCHANGED calls
  \/ \E id \in TaskIds, d \in StatusUpdates, u \in UserIds :
       UpdateTask(id, d, u) /\ UNCHANGED calls
  \/ \E id \in TaskIds, st \in StatusValues, u \in UserIds :
       ChangeTaskStatus(id, st, u) /\ UNCHANGED calls

SpecStatus == Init /\ [][NextStatus]_vars

(* SpecDue: due dates against the clock.  The server may run at any       *)
(* instant from day 1 on; the due dates range over every instant from day  *)
(* 0 on, the null date and an Invalid Date.                                *)
Instants == 0..MaxNow
DueValues == {Some(i) : i \in Instants} \cup {Some(-1), Null}

DueCreates ==
  {NewTask(1, TitleA)} \cup {With(NewTask(1, TitleA), "due_date", due) : due \in DueValues}

DueUpdates ==
  {With(EmptyData, "due_date", due) : due \in DueValues}
    \cup {With(With(EmptyData, "due_date", Some(i)), "title", Some(BlankTitle)) :
            i \in {0, MaxNow}}

InitDue == \E t \in TicksPerDay..MaxNow : InitAt(t)

NextDue ==
  \/ \E d \in DueCreates : CreateTask(d) /\ UNCHANGED calls
  \/ \E id \in TaskIds, d \in DueUpdates : UpdateTask(id, d, 1) /\ UNCHANGED calls

SpecDue == InitDue /\ [][NextDue]_vars

(* SpecAgree: the due-date check and the overdue listing at one instant:  *)
(* the clock stands still at the instant the server started at, any        *)
(* instant from day 1 on, so every due date in the table was accepted at   *)
(* the instant the listing is made.                                        *)
NextAgree ==
  \/ \E d \in DueCreates : CreateTask(d) /\ UNCHANGED calls
  \/ \E id \in TaskIds, d \in DueUpdates : UpdateTask(id, d, 1) /\ UNCHANGED calls
  \/ \E u \in UserIds : GetOverdueTasks(u) /\ UNCHANGED calls

SpecAgree == InitDue /\ [][NextAgree]_vars

(* SpecUpdate: partial updates.  A session of at most MaxCalls steps (the  *)
(* calls and the ticks of the clock); every task is updated by its owner.  *)
Counted(A) == calls < MaxCalls /\ calls' = calls + 1 /\ A

FullTask ==
  With(With(With(With(NewTask(1, TitleA), "description", Some(<<"d">>)),
                 "category_id", Some(1)), "priority_id", Some(1)),
       "due_date", Some(TicksPerDay + 1))

NewValue(f) ==
  CASE f = "title" -> Some(TitleB)
    [] f = "description" -> Some(<<"e">>)
    [] f = "category_id" -> Some(2)
    [] f = "priority_id" -> Some(2)
    [] f = "due_date" -> Some(MaxNow)
    [] f = "status" -> Some("completed")

RECURSIVE Supply(_)
Supply(F) ==
  IF F = {} THEN EmptyData
  ELSE LET f == CHOOSE x \in F : TRUE IN With(Supply(F \ {f}), f, NewValue(f))

(* the sets of fields a payload supplies: none, one, some pairs, a triple, *)
(* all of them                                                             *)
FieldSets ==
  {F \in SUBSET Fields : Cardinality(F) <= 1}
    \cup {{"title", "status"}, {"description", "due_date"},
          {"category_id", "priority_id", "status"}, Fields}

PartialUpdates ==
  {Supply(F) : F \in FieldSets}
    \cup {WithUndefined(EmptyData, "title"),
          With(EmptyData, "due_date", Null),
          With(EmptyData, "description", Null)}

NextUpdate ==
  \/ \E d \in {FullTask, NewTask(2, TitleA)} : Counted(CreateTask(d))
  \/ \E id \in DOMAIN tasks, d \in PartialUpdates :
       Counted(UpdateTask(id, d, tasks[id].user_id))
  \/ Counted(Tick)

SpecUpdate == Init /\ [][NextUpdate]_vars

(* SpecQuery: the by-category and by-priority listings over tasks of       *)
(* several owners.                                                         *)
QueryCreates ==
  {NewTask(u, TitleA) : u \in UserIds}
    \cup {With(NewTask(u, TitleA), "category_id", Some(c)) : u \in UserIds, c \in CategoryIds}
    \cup {With(NewTask(u, TitleA), "priority_id", Some(q)) : u \in UserIds, q \in PriorityIds}
    \cup {With(With(NewTask(u, TitleA), "category_id", Some(1)), "priority_id", Some(1)) :
            u \in UserIds}

NextQuery ==
  \/ \E d \in QueryCreates : CreateTask(d) /\ UNCHANGED calls
  \/ \E id \in TaskIds, u \in UserIds : DeleteTask(id, u) /\ UNCHANGED calls
  \/ \E c \in CategoryIds, u \in UserIds : GetTasksByCategory(c, u) /\ UNCHANGED calls
  \/ \E q \in PriorityIds, u \in UserIds : GetTasksByPriority(q, u) /\ UNCHANGED calls

SpecQuery == Init /\ [][NextQuery]_vars

(* SpecView: the due-soon and overdue listings, in a session of at most   *)
(* MaxCalls writes and ticks of the clock.  Tasks due today, on the last   *)
(* day of the default window and after it, and without due date; tasks     *)
(* completed and cancelled by their owners.                                *)
ViewDueDays == {1, 1 + DefaultDays, MaxDay + DefaultDays}

ViewCreates ==
  {NewTask(1, TitleA), With(NewTask(2, TitleA), "due_date", Some((1 + DefaultDays) * TicksPerDay))}
    \cup {With(NewTask(1, TitleA), "due_date", Some(d * TicksPerDay)) : d \in ViewDueDays}

ViewDays == {Null, Some(1)}

NextView ==
  \/ \E d \in ViewCreates : Counted(CreateTask(d))
  \/ \E id \in DOMAIN tasks, st \in {"completed", "cancelled"} :
       Counted(ChangeTaskStatus(id, Some(st), tasks[id].user_id))
  \/ \E u \in UserIds, n \in ViewDays : GetTasksDueSoon(u, n) /\ UNCHANGED calls
  \/ \E u \in UserIds : GetOverdueTasks(u) /\ UNCHANGED calls
  \/ Counted(Tick)

SpecView == Init /\ [][NextView]_vars

(* --------------------------- account inputs ---------------------------- *)
EmailA == <<"a", "@", "x", ".", "i", "o">>
EmailB == <<"b", "@", "x", ".", "i", "o">>
EmailC == <<"c", "@", "x", ".", "i", "o">>
BadEmail == <<"a", "@", "x">>
NameA == <<"a", "n", "n">>
NameB == <<"b", "e", "n">>
NameC == <<"c", "y", "d">>
ShortName == <<"a", " ", " ">>
OtherPassword == <<"S", "e", "c", "r", "e", "t", "-", "9", "9">>
WeakPassword == <<"w", "e", "a", "k">>

UserData(email, username, password, role) ==
  [email |-> email, username |-> username, password |-> password, role |-> role]
Profile(username, email, role) == [username |-> username, email |-> email, role |-> role]

(* an empty users table, an empty tasks table *)
InitAccounts ==
  /\ tasks = <<>>
  /\ nextId = 1
  /\ now = TicksPerDay
  /\ last = NoCall
  /\ calls = 0
  /\ users = <<>>
  /\ nextUserId = 1
  /\ procs = NoProcs
  /\ held = {}

(* SpecRegister: registrations with every mix of missing, taken, invalid   *)
(* and valid email, username, password and role.                           *)
RegisterData ==
  {UserData(e, n, pw, r) :
     e \in {Some(EmailA), Some(EmailB), Some(BadEmail), Some(<<>>)},
     n \in {Some(NameA), Some(NameB), Some(ShortName), Null},
     pw \in {Some(StrongPassword), Some(WeakPassword), Null},
     r \in {Null, Some("admin"), Some("root")}}

NextRegister == \E d \in RegisterData : Dropped(Register(d))

SpecRegister == InitAccounts /\ [][NextRegister]_vars

(* SpecAccounts: registration, login, profiles and deletion, one call at *)
(* a time.  Callers 1 and 2 act on every id, as themselves or as admins.   *)
AccountRegisters ==
  {UserData(Some(EmailA), Some(NameA), Some(StrongPassword), Null),
   UserData(Some(EmailB), Some(NameB), Some(StrongPassword), Some("admin"))}

AccountIds == 1..(MaxUsers + 1)
Callers == {1, 2}

AccountUpdates ==
  {Profile(Null, Null, Some("admin")),
   Profile(Some(NameC), Null, Some("admin")),
   Profile(Null, Some(EmailB), Null)}

AccountFilters == {Profile(Null, Null, Null), Profile(Some(<<"n">>), Null, Some("user"))}

NextAccounts ==
  \/ \E d \in AccountRegisters : Dropped(Register(d))
  \/ \E e \in {EmailA, EmailC}, pw \in {StrongPassword, OtherPassword} :
       Dropped(Login(e, pw))
  \/ \E id \in AccountIds : Dropped(GetUserById(id))
  \/ \E f \in AccountFilters : GetAllUsers(f)
  \/ \E id \in AccountIds, d \in AccountUpdates, c \in Callers, isAdmin \in BOOLEAN :
       Dropped(UpdateUser(id, d, c, isAdmin))
  \/ \E id \in AccountIds, c \in Callers, isAdmin \in BOOLEAN :
       Dropped(DeleteUser(id, c, isAdmin))

SpecAccounts == InitAccounts /\ [][NextAccounts]_vars

(* SpecPassword: password changes with the current, another and a weak     *)
(* password, and the logins that follow them.                              *)
NextPassword ==
  \/ \E d \in AccountRegisters : Dropped(Register(d))
  \/ \E pw \in {StrongPassword, OtherPassword} : Dropped(Login(EmailA, pw))
  \/ \E id \in AccountIds, cur \in {StrongPassword, OtherPassword},
        new \in {StrongPassword, OtherPassword, WeakPassword} :
       Dropped(ChangePassword(id, cur, new))

SpecPassword == InitAccounts /\ [][NextPassword]_vars

(* SpecConcurrent: register and updateUser calls that run concurrently and *)
(* ask for the same emails and usernames.                                  *)
ConcurrentCalls ==
  {Proc("register", [data |-> UserData(Some(e), Some(n), Some(StrongPassword), Null)]) :
     e \in {EmailA, EmailB}, n \in {NameA, NameB}}
    \cup {Proc("updateUser", [userId |-> id, data |-> d, currentUserId |-> id,
                              isAdmin |-> FALSE]) :
            id \in 1..MaxUsers,
            d \in {Profile(Null, Some(EmailB), Null), Profile(Some(NameB), Null, Null)}}

NextConcurrent ==
  \/ \E i \in ProcIds, p \in ConcurrentCalls : Begin(i, p)
  \/ \E i \in ProcIds : Continue(i)

SpecConcurrent == InitAccounts /\ [][NextConcurrent]_vars

(* SpecTokens: refresh tokens kept by clients across profile changes and  *)
(* deletions, tokens of the wrong domain and forged tokens, and password   *)
(* resets for known and unknown emails.  Profile changes are made by an    *)
(* admin, deletions by the user.                                           *)
TokenUpdates ==
  {Profile(Null, Null, Some("admin")), Profile(Some(NameC), Some(EmailC), Null)}

(* the tokens a client may present: the refresh tokens kept, the same      *)
(* claims signed for the access domain, and claims signed with another key *)
Presented ==
  held \cup {[t EXCEPT !.secret = "SECRET"] : t \in held}
       \cup {[t EXCEPT !.secret = "forged"] : t \in held}

NextTokens ==
  \/ \E d \in AccountRegisters : Kept(Register(d))
  \/ Kept(Login(EmailA, StrongPassword))
  \/ \E id \in 1..MaxUsers, d \in TokenUpdates : Dropped(UpdateUser(id, d, 0, TRUE))
  \/ \E id \in 1..MaxUsers : Dropped(DeleteUser(id, id, FALSE))
  \/ \E t \in Presented : Dropped(RefreshAccessToken(t))
  \/ \E e \in {EmailA, EmailC}, r \in {"c0ffee", "decade"} :
       Dropped(InitiatePasswordReset(e, r))
  \/ \E pw \in {OtherPassword, WeakPassword} : Dropped(ResetPassword("c0ffee", pw))

SpecTokens == InitAccounts /\ [][NextTokens]_vars

(* SpecValidator: the password validator on passwords of every length     *)
(* around the minimum, with every mix of an uppercase letter, a lowercase  *)
(* letter, a digit and a symbol, filled up with a character of no class    *)
(* (a space, or the symbol "~", which the validator does not count as      *)
(* special).                                                               *)
Rank(c) == CASE c = "Q" -> 1 [] c = "q" -> 2 [] c = "7" -> 3 [] OTHER -> 4
RECURSIVE Letters(_)
Letters(S) ==
  IF S = {} THEN <<>>
  ELSE LET c == CHOOSE x \in S : \A y \in S : Rank(x) <= Rank(y)
       IN <<c>> \o Letters(S \ {c})

Filled(str, n, c) == str \o [i \in 1..(n - Len(str)) |-> c]

Passwords ==
  {Filled(Letters(S), n, c) :
     S \in SUBSET {"Q", "q", "7", "?"},
     n \in (MinPasswordLen - 2)..(MinPasswordLen + 2),
     c \in {" ", "~"}}

NextValidator == \E pw \in Passwords : Dropped(ResetPassword("c0ffee", pw))

SpecValidator == InitAccounts /\ [][NextValidator]_vars

(* SpecErrors: both services, one call at a time in a session of at most   *)
(* MaxCalls calls, with the payloads that each validation and each         *)
(* authorization refuses next to payloads that pass.  Tasks are created    *)
(* for registered users.                                                   *)
ErrorRegisters ==
  AccountRegisters
    \cup {UserData(Null, Some(NameA), Some(StrongPassword), Null),
          UserData(Some(EmailA), Some(NameC), Some(StrongPassword), Null),
          UserData(Some(EmailC), Some(NameA), Some(StrongPassword), Null)}
    \cup {UserData(Some(EmailC), Some(NameC), Some(pw), Null) :
            pw \in {WeakPassword, Filled(<<"q">>, MinPasswordLen, "7"),
                    Filled(<<"Q">>, MinPasswordLen, "7"), Filled(<<"Q">>, MinPasswordLen, "q"),
                    Filled(<<"Q", "q">>, MinPasswordLen, "7")}}

ErrorCreates(u) ==
  {NewTask(u, TitleA), NewTask(u, BlankTitle), With(NewTask(u, TitleA), "due_date", Some(0))}

ErrorUpdates ==
  {EmptyData,
   With(EmptyData, "title", Some(TitleB)),
   With(EmptyData, "title", Some(BlankTitle)),
   With(EmptyData, "status", Some("bogus")),
   With(With(EmptyData, "title", Some(TitleB)), "due_date", Some(0))}

NextErrors ==
  \/ \E d \in ErrorRegisters : Counted(Register(d)) /\ UNCHANGED held
  \/ \E d \in {Profile(Some(NameB), Null, Null), Profile(Null, Some(EmailB), Null),
                Profile(Some(NameC), Null, Some("admin"))}, c \in Callers :
       Counted(UpdateUser(1, d, c, FALSE)) /\ UNCHANGED held
  \/ \E c \in Callers : Counted(DeleteUser(1, c, FALSE)) /\ UNCHANGED held
  \/ \E cur \in {StrongPassword, OtherPassword},
        new \in {StrongPassword, OtherPassword, WeakPassword} :
       Counted(ChangePassword(1, cur, new)) /\ UNCHANGED held
  \/ \E u \in DOMAIN users \cap UserIds : \E d \in ErrorCreates(u) : Counted(CreateTask(d))
  \/ \E id \in DOMAIN tasks, d \in ErrorUpdates, u \in UserIds :
       Counted(UpdateTask(id, d, u))
  \/ \E id \in DOMAIN tasks, u \in UserIds : Counted(DeleteTask(id, u))
  \/ \E id \in DOMAIN tasks, st \in Statuses, u \in UserIds :
       Counted(ChangeTaskStatus(id, st, u))

SpecErrors == InitAccounts /\ [][NextErrors]_vars

(* SpecSearch: GET /api/tasks with a search term and with filters, over    *)
(* tasks of two owners.  The terms are letters in either case, a string    *)
(* that no task holds, and the characters "_" and "%".                     *)
SearchCreates ==
  {NewTask(1, <<"A", "b">>),
   With(With(NewTask(1, <<"x", "y">>), "description", Some(<<"a", "_", "c">>)),
        "category_id", Some(1)),
   NewTask(2, <<"a">>)}

SearchTerms == {<<"a">>, <<"B">>, <<"z">>, <<"_">>, <<"%">>}

SearchQueries ==
  {NoQuery, [NoQuery EXCEPT !.category_id = Some(1)], [NoQuery EXCEPT !.search = Some(<<>>)]}
    \cup {[NoQuery EXCEPT !.search = Some(t)] : t \in SearchTerms}
    \cup {[NoQuery EXCEPT !.search = Some(t), !.category_id = Some(1)] : t \in SearchTerms}

NextSearch ==
  \/ \E d \in SearchCreates : CreateTask(d) /\ UNCHANGED calls
  \/ \E u \in UserIds, q \in SearchQueries : GetAllTasks(u, q) /\ UNCHANGED calls

SpecSearch == Init /\ [][NextSearch]_vars

(* SpecRace: two calls of the task service on the same task that run       *)
(* concurrently, with every interleaving of their queries: updates of      *)
(* disjoint and of overlapping fields by the owner, a delete and a change  *)
(* of status; and the reads that follow them.                              *)
RaceFieldSets ==
  {{"title"}, {"status"}, {"description", "due_date"}, {"title", "priority_id"}}

RaceCalls ==
  {Proc("updateTask", [taskId |-> 1, data |-> Supply(F), userId |-> 1]) : F \in RaceFieldSets}
    \cup {Proc("deleteTask", [taskId |-> 1, userId |-> 1]),
          Proc("changeTaskStatus", [taskId |-> 1, status |-> Some("cancelled"), userId |-> 1])}

NextRace ==
  \/ \E d \in {FullTask, NewTask(2, TitleA)} : CreateTask(d) /\ UNCHANGED calls
  \/ \E i \in ProcIds, p \in RaceCalls : BeginTask(i, p)
  \/ \E i \in ProcIds : ContinueTask(i)
  \/ \E id \in TaskIds : GetTaskById(id) /\ UNCHANGED calls

SpecRace == Init /\ [][NextRace]_vars

(* SpecEscalation: what callers who are not admins can do to roles:        *)
(* registrations with and without a role in the payload, and profile       *)
(* updates that carry a role, through the service with isAdmin = false and *)
(* through the controller with the token of a user.                        *)
EscalationRegisters ==
  {UserData(Some(EmailA), Some(NameA), Some(StrongPassword), Null),
   UserData(Some(EmailB), Some(NameB), Some(StrongPassword), Some("user")),
   UserData(Some(EmailC), Some(NameC), Some(StrongPassword), Some("admin"))}

EscalationUpdates ==
  {Profile(Null, Null, Some("admin")), Profile(Some(NameC), Null, Some("admin")),
   Profile(Some(NameC), Some(EmailC), Null)}

NextEscalation ==
  \/ \E d \in EscalationRegisters : Dropped(Register(d))
  \/ \E id \in AccountIds, d \in EscalationUpdates, c \in Callers :
       Dropped(UpdateUser(id, d, c, FALSE))
  \/ \E id \in AccountIds, d \in EscalationUpdates, c \in Callers :
       Dropped(ControllerUpdateUser(id, d, [id |-> c, role |-> "user"]))

SpecEscalation == InitAccounts /\ [][NextEscalation]_vars

(* ======================== properties of the service ==================== *)
IsOwner(id, u) == tasks[id].user_id = u
ValidStatuses == {Some(st) : st \in TaskStatus}
Mutations == {"updateTask", "deleteTask", "changeTaskStatus"}

(* C1: updateTask, deleteTask and changeTaskStatus on an existing task by  *)
(* a caller who is neither its owner nor an admin fail with FORBIDDEN, and *)
(* the table is left as it was.                                            *)
C1_NonOwnerForbidden ==
  [][(/\ last'.op \in Mutations
      /\ Exists(last'.id)
      /\ ~IsOwner(last'.id, last'.userId)
      /\ Role(last'.userId) # "admin")
     => (last'.res = "FORBIDDEN" /\ tasks' = tasks)]_vars

(* a non-owner, non-admin caller has sent a valid update of an existing task *)
C1_Witness ==
  /\ last.op = "updateTask"
  /\ Exists(last.id)
  /\ ~IsOwner(last.id, last.userId)
  /\ Role(last.userId) = "user"
  /\ last.data.def = {"title"}
  /\ last.res = "FORBIDDEN"

(* C2: every stored task has a status of the TaskStatus enum, in every     *)
(* reachable state.                                                        *)
C2_StatusAlwaysValid == \A id \in DOMAIN tasks : tasks[id].status \in ValidStatuses

(* C3: the owner of a task never changes, whatever the calls and payloads. *)
C3_OwnerImmutable ==
  [][\A id \in DOMAIN tasks \cap DOMAIN tasks' : tasks'[id].user_id = tasks[id].user_id]_vars

(* an update whose payload names another owner has succeeded *)
C3_Witness ==
  /\ last.op = "updateTask"
  /\ last.res = "ok"
  /\ "user_id" \in last.data.def
  /\ Exists(last.id)
  /\ last.data.user_id # Some(tasks[last.id].user_id)
  /\ tasks[last.id].title = TitleB

(* C4: the task a successful createTask returns, and the row it stores,    *)
(* have status pending, whatever status the input carries.                 *)
C4_CreatePending ==
  (last.op = "createTask" /\ last.res = "ok")
    => /\ Len(last.ret) = 1
       /\ last.ret[1].status = Some(PENDING)
       /\ Exists(last.ret[1].task_id)
       /\ tasks[last.ret[1].task_id].status = Some(PENDING)

(* a create whose input carried status completed has succeeded *)
C4_Witness ==
  /\ last.op = "createTask"
  /\ last.res = "ok"
  /\ last.data.status = Some("completed")

(* C5: an admin who is not the owner of an existing task may update and    *)
(* delete it: the call does not fail with FORBIDDEN.                       *)
C5_AdminPermitted ==
  [][(/\ last'.op \in {"updateTask", "deleteTask"}
      /\ Exists(last'.id)
      /\ ~IsOwner(last'.id, last'.userId)
      /\ Role(last'.userId) = "admin")
     => last'.res # "FORBIDDEN"]_vars

(* a call that carries a due date: a create, or an update of an existing  *)
(* task by its owner                                                       *)
DueCall ==
  /\ last'.op \in {"createTask", "updateTask"}
  /\ Truthy(last'.data, "due_date")
  /\ ~IsNaN(Val(last'.data.due_date))
  /\ last'.op = "updateTask" => (Exists(last'.id) /\ IsOwner(last'.id, last'.userId))

RestValid ==
  IF last'.op = "createTask" THEN validateCreate(last'.data) = "ok"
  ELSE last'.data.def = {"due_date"}

DueTarget == IF last'.op = "createTask" THEN nextId ELSE last'.id

(* C6: createTask, and updateTask by the owner of an existing task, with a *)
(* due date on a day before the current day fail with INVALID_DUE_DATE and *)
(* write nothing; with a due date on the current day or later, whatever    *)
(* the time of day, they do not fail with INVALID_DUE_DATE, and succeed    *)
(* and store that day when the rest of the payload is valid.               *)
C6_DueDateRule ==
  [][DueCall =>
       IF DayOf(Val(last'.data.due_date)) < DayOf(now)
       THEN last'.res = "INVALID_DUE_DATE" /\ tasks' = tasks /\ nextId' = nextId
       ELSE /\ last'.res # "INVALID_DUE_DATE"
            /\ RestValid =>
                 /\ last'.res = "ok"
                 /\ DueTarget \in DOMAIN tasks'
                 /\ tasks'[DueTarget].due_date = Some(DayOf(Val(last'.data.due_date)))]_vars

(* a task was created with a due date of today at an instant already past *)
C6_Witness ==
  /\ last.op = "createTask"
  /\ last.res = "ok"
  /\ ~IsNull(last.data.due_date)
  /\ Val(last.data.due_date) < now
  /\ DayOf(Val(last.data.due_date)) = DayOf(now)

(* C7: updateTask on an existing task by its owner with an empty payload   *)
(* fails with NO_UPDATE_DATA and leaves the table as it was.               *)
C7_EmptyPayloadRejected ==
  [][(/\ last'.op = "updateTask"
      /\ Exists(last'.id)
      /\ IsOwner(last'.id, last'.userId)
      /\ last'.data.keys = {})
     => (last'.res = "NO_UPDATE_DATA" /\ tasks' = tasks)]_vars

(* the owner has sent an empty payload for an existing task *)
C7_Witness ==
  /\ last.op = "updateTask"
  /\ Exists(last.id)
  /\ IsOwner(last.id, last.userId)
  /\ last.data.keys = {}
  /\ last.res = "NO_UPDATE_DATA"

(* a step of SpecUpdate that is a successful updateTask *)
UpdateStep == last'.op = "updateTask" /\ last'.res = "ok" /\ now' = now /\ calls' # calls

(* the value a row holds for a field, as the service reads it back *)
ReadField(row, f) == IF f = "title" THEN Some(row.title) ELSE fromDatabaseRow(row)[f]

OtherColumns == {"task_id", "user_id", "created_at"}

(* C8: a successful updateTask changes exactly the supplied fields to the  *)
(* supplied values; every other field of that task (updated_at too) and    *)
(* every other task keeps its value.                                       *)
C8_ExactlySuppliedFields ==
  [][UpdateStep =>
       /\ DOMAIN tasks' = DOMAIN tasks
       /\ \A id \in DOMAIN tasks \ {last'.id} : tasks'[id] = tasks[id]
       /\ \A f \in Fields :
            IF Defined(last'.data, f)
            THEN ReadField(tasks'[last'.id], f) = last'.data[f]
            ELSE tasks'[last'.id][f] = tasks[last'.id][f]
       /\ \A f \in OtherColumns \cup {"updated_at"} :
            tasks'[last'.id][f] = tasks[last'.id][f]]_vars

(* the value the column takes from a supplied field *)
SuppliedValue(d, f) ==
  IF f = "due_date" /\ ~IsNull(d.due_date) THEN Some(DayOf(Val(d.due_date)))
  ELSE IF f = "title" THEN Val(d.title)
  ELSE d[f]

(* C8, as the code has it: an updateTask that supplies at least one field *)
(* sets the supplied fields to the supplied values (of a due date, its     *)
(* calendar day) and updated_at to the current time; with no field         *)
(* supplied it writes nothing; every other field and task keeps its value. *)
C8_SuppliedFieldsAndUpdatedAt ==
  [][UpdateStep =>
       /\ DOMAIN tasks' = DOMAIN tasks
       /\ \A id \in DOMAIN tasks \ {last'.id} : tasks'[id] = tasks[id]
       /\ \A f \in Fields :
            IF Defined(last'.data, f)
            THEN tasks'[last'.id][f] = SuppliedValue(last'.data, f)
            ELSE tasks'[last'.id][f] = tasks[last'.id][f]
       /\ \A f \in OtherColumns : tasks'[last'.id][f] = tasks[last'.id][f]
       /\ tasks'[last'.id].updated_at =
            IF last'.data.def \cap Fields = {} THEN tasks[last'.id].updated_at ELSE now]_vars

(* the owner has updated two fields of a task that has all its fields set, *)
(* after the clock moved, while another task exists                        *)
C8_Witness ==
  /\ last.op = "updateTask"
  /\ last.res = "ok"
  /\ last.data.def = {"title", "status"}
  /\ Exists(last.id)
  /\ tasks[last.id].description = Some(<<"d">>)
  /\ tasks[last.id].updated_at > tasks[last.id].created_at
  /\ Cardinality(DOMAIN tasks) > 1

(* C9: for an id that names no task, updateTask and changeTaskStatus       *)
(* return null and deleteTask returns false, whatever the caller, payload  *)
(* and status, and the table is left as it was.                            *)
C9_MissingTaskIsNull ==
  [][(last'.op \in Mutations /\ ~Exists(last'.id))
     => /\ last'.res = IF last'.op = "deleteTask" THEN "false" ELSE "null"
        /\ last'.ret = <<>>
        /\ tasks' = tasks]_vars

(* a status change to an invalid status on a missing task returned null *)
C9_Witness ==
  /\ last.op = "changeTaskStatus"
  /\ ~Exists(last.id)
  /\ last.status = Some("bogus")
  /\ last.res = "null"

(* the tasks of a result; the caller's tasks with value v in column f *)
Elements(seq) == {seq[i] : i \in 1..Len(seq)}

OwnedWith(f, v, u) ==
  {fromDatabaseRow(r) : r \in {x \in Rows : x[f] = Some(v) /\ x.user_id = u}}

(* C10: getTasksByCategory and getTasksByPriority return exactly the tasks *)
(* with that category or priority that the caller owns, each once.         *)
C10_OwnTasksOnly ==
  /\ last.op = "getTasksByCategory"
       => /\ Elements(last.ret) = OwnedWith("category_id", last.id, last.userId)
          /\ Len(last.ret) = Cardinality(Elements(last.ret))
  /\ last.op = "getTasksByPriority"
       => /\ Elements(last.ret) = OwnedWith("priority_id", last.id, last.userId)
          /\ Len(last.ret) = Cardinality(Elements(last.ret))

(* an admin has listed a category that holds a task of his own and a task  *)
(* of another user                                                         *)
C10_Witness ==
  /\ last.op = "getTasksByCategory"
  /\ Role(last.userId) = "admin"
  /\ Len(last.ret) = 1
  /\ \E r \in Rows : r.category_id = Some(last.id) /\ r.user_id # last.userId

(* a step that is a listing call: the clock and the table stay *)
ListingStep(op) == last'.op = op /\ now' = now /\ tasks' = tasks

(* the caller's tasks that are not completed and are due within [lo, hi] *)
OpenDueWithin(u, lo, hi) ==
  {fromDatabaseRow(r) :
     r \in {x \in Rows : /\ x.user_id = u
                         /\ ~IsNull(x.due_date)
                         /\ x.status # Some("completed")
                         /\ lo <= Val(x.due_date) * TicksPerDay
                         /\ Val(x.due_date) * TicksPerDay <= hi}}

WindowDays(days) == IF IsNull(days) THEN 3 ELSE Val(days)

(* C11: getTasksDueSoon(ownerId, days) returns exactly the owner's tasks    *)
(* with a due date, a status other than completed, and now <= due_date <=  *)
(* now + days, both bounds inclusive, each once; days defaults to 3.       *)
C11_DueSoonWindow ==
  [][ListingStep("getTasksDueSoon") =>
       /\ Elements(last'.ret) =
            OpenDueWithin(last'.userId, now, now + WindowDays(last'.days) * TicksPerDay)
       /\ Len(last'.ret) = Cardinality(Elements(last'.ret))]_vars

(* the default window has returned a cancelled task due on its last       *)
(* instant and left out a task that is completed or of another owner       *)
C11_Witness ==
  /\ last.op = "getTasksDueSoon"
  /\ IsNull(last.days)
  /\ \E i \in 1..Len(last.ret) :
       /\ last.ret[i].status = Some("cancelled")
       /\ Val(last.ret[i].due_date) = now + 3 * TicksPerDay
  /\ \E r \in Rows : r.user_id # last.userId \/ r.status = Some("completed")

(* C12: getOverdueTasks(ownerId) returns exactly the owner's tasks with a   *)
(* due date strictly before the current instant and a status other than    *)
(* completed, each once.                                                   *)
C12_OverdueExact ==
  [][ListingStep("getOverdueTasks") =>
       /\ Elements(last'.ret) =
            {t \in OpenDueWithin(last'.userId, 0, now) : Val(t.due_date) # now}
       /\ Len(last'.ret) = Cardinality(Elements(last'.ret))]_vars

(* the overdue listing has returned a task while the caller also has a      *)
(* completed task that is past its due date                                *)
C12_Witness ==
  /\ last.op = "getOverdueTasks"
  /\ Len(last.ret) = 1
  /\ \E r \in Rows : /\ r.user_id = last.userId
                     /\ r.status = Some("completed")
                     /\ ~IsNull(r.due_date)
                     /\ Val(r.due_date) * TicksPerDay < now

(* C13: changeTaskStatus by the owner of an existing task, whatever its     *)
(* status, succeeds for every target of the TaskStatus enum and leaves the *)
(* task with that status; any other target fails with INVALID_STATUS and   *)
(* leaves the table as it was.                                             *)
C13_StatusFullyPermissive ==
  [][(/\ last'.op = "changeTaskStatus"
      /\ Exists(last'.id)
      /\ IsOwner(last'.id, last'.userId))
     => IF last'.status \in ValidStatuses
        THEN /\ last'.res = "ok"
             /\ DOMAIN tasks' = DOMAIN tasks
             /\ tasks'[last'.id].status = last'.status
             /\ Len(last'.ret) = 1
             /\ last'.ret[1].status = last'.status
             /\ \A id \in DOMAIN tasks \ {last'.id} : tasks'[id] = tasks[id]
        ELSE last'.res = "INVALID_STATUS" /\ tasks' = tasks]_vars

(* the owner has set a task to pending (from pending itself or backwards)  *)
(* while his other task is completed                                       *)
C13_Witness ==
  /\ last.op = "changeTaskStatus"
  /\ last.res = "ok"
  /\ last.status = Some(PENDING)
  /\ \E id \in DOMAIN tasks : id # last.id /\ tasks[id].status = Some("completed")

(* ======================== properties of the accounts =================== *)
EmailTaken(email) == \E id \in DOMAIN users : users[id].email = email
UsernameTaken(username) == \E id \in DOMAIN users : users[id].username = username
Missing(o) == o = Null \/ o = Some(<<>>)

(* C14: register checks missing fields, then the email, then the username, *)
(* then the password strength, and the first check that fails decides the  *)
(* error; with an email already present it fails with EMAIL_EXISTS without *)
(* the username check being made; in each case no user is created.         *)
C14_RegisterCheckOrder ==
  [][last'.op = "register" =>
       LET d == last'.a.data
       IN IF Missing(d.email) \/ Missing(d.username) \/ Missing(d.password)
          THEN last'.res = "MISSING_REQUIRED_FIELDS" /\ users' = users
          ELSE IF EmailTaken(Val(d.email))
          THEN /\ last'.res = "EMAIL_EXISTS"
               /\ "usernameExists" \notin Elements(last'.steps)
               /\ users' = users
               /\ nextUserId' = nextUserId
          ELSE IF UsernameTaken(Val(d.username))
          THEN last'.res = "USERNAME_EXISTS" /\ users' = users
          ELSE IF validatePasswordStrength(Val(d.password)) # "ok"
          THEN /\ last'.res = validatePasswordStrength(Val(d.password))
               /\ users' = users
          ELSE TRUE]_vars

(* a registration with a taken email, a taken username and a weak password *)
(* has failed with EMAIL_EXISTS                                            *)
C14_Witness ==
  /\ last.op = "register"
  /\ last.res = "EMAIL_EXISTS"
  /\ UsernameTaken(Val(last.a.data.username))
  /\ last.a.data.password = Some(WeakPassword)

(* C15: no two stored users share an email, no two share a username, under *)
(* every interleaving of concurrent register and updateUser calls.         *)
C15_UniqueEmailAndUsername ==
  \A i, j \in DOMAIN users :
    i # j => users[i].email # users[j].email /\ users[i].username # users[j].username

(* two concurrent registrations of one email both passed every check; one  *)
(* stored the user, the INSERT of the other was refused                    *)
C15_Witness ==
  /\ procs[1].op = "register"
  /\ procs[2].op = "register"
  /\ procs[1].a.data.email = procs[2].a.data.email
  /\ procs[1].res = "ok"
  /\ procs[2].res = "SERVER_ERROR"
  /\ "INSERT" \in Elements(procs[2].steps)

(* C16: a login with an email of no user and a login with a wrong password *)
(* fail with the same error (401, INVALID_CREDENTIALS, "Invalid            *)
(* credentials") and return no tokens.                                     *)
C16_LoginFailuresIdentical ==
  (/\ last.op = "login"
   /\ ~\E id \in DOMAIN users :
         /\ users[id].email = last.a.email
         /\ users[id].password_hash = [bcrypt |-> last.a.password])
    => /\ last.err = [statusCode |-> 401, code |-> "INVALID_CREDENTIALS",
                      message |-> "Invalid credentials"]
       /\ last.res = "INVALID_CREDENTIALS"
       /\ last.ret = <<>>

(* a login with the email of a user and a wrong password has failed *)
C16_Witness ==
  /\ last.op = "login"
  /\ EmailTaken(last.a.email)
  /\ last.res = "INVALID_CREDENTIALS"
  /\ "compare" \in Elements(last.steps)

TokenClaims == {"id", "username", "email", "role"}

(* C17: no value that register, login, getUserById, getAllUsers or         *)
(* updateUser returns holds a password_hash.                               *)
C17_NoPasswordHashReturned ==
  /\ (last.op \in {"register", "login"} /\ last.ret # <<>>)
       => /\ "password_hash" \notin DOMAIN last.ret[1].user
          /\ DOMAIN last.ret[1].accessToken.payload = TokenClaims
          /\ DOMAIN last.ret[1].refreshToken.payload = TokenClaims
  /\ (last.op \in {"getUserById", "updateUser"} /\ last.ret # <<>>)
       => "password_hash" \notin DOMAIN last.ret[1]
  /\ last.op = "getAllUsers"
       => \A i \in 1..Len(last.ret[1]) : "password_hash" \notin DOMAIN last.ret[1][i]

(* an update has returned the updated user *)
C17_Witness ==
  /\ last.op = "updateUser"
  /\ last.res = "ok"
  /\ last.ret[1].username = NameC
  /\ "UPDATE" \in Elements(last.steps)

(* C18: updateUser with isAdmin = false changes the role of no user; a     *)
(* role in the payload raises no error and the other fields are applied.   *)
C18_RoleStrippedForNonAdmin ==
  [][(last'.op = "updateUser" /\ ~last'.a.isAdmin) =>
       /\ \A id \in DOMAIN users : id \in DOMAIN users' /\ users'[id].role = users[id].role
       /\ (/\ last'.a.userId \in DOMAIN users
           /\ last'.a.currentUserId = last'.a.userId
           /\ last'.a.data = [username |-> Some(NameC), email |-> Null, role |-> Some("admin")]
           /\ \A id \in DOMAIN users \ {last'.a.userId} : users[id].username # NameC)
          => /\ last'.res = "ok"
             /\ users'[last'.a.userId].username = NameC]_vars

(* a user has sent his own profile a new username and the role admin: the  *)
(* username is stored, the role is still user                              *)
C18_Witness ==
  /\ last.op = "updateUser"
  /\ ~last.a.isAdmin
  /\ last.a.data.role = Some("admin")
  /\ last.res = "ok"
  /\ users[last.a.userId].username = NameC
  /\ users[last.a.userId].role = "user"

(* C19: updateUser and deleteUser on an existing user by another caller    *)
(* with isAdmin = false fail with FORBIDDEN and leave the users table as   *)
(* it was; by the user himself or with isAdmin = true they do not fail     *)
(* with FORBIDDEN.                                                         *)
C19_SelfOrAdmin ==
  [][(last'.op \in {"updateUser", "deleteUser"} /\ last'.a.userId \in DOMAIN users) =>
       IF last'.a.currentUserId # last'.a.userId /\ ~last'.a.isAdmin
       THEN last'.res = "FORBIDDEN" /\ users' = users
       ELSE last'.res # "FORBIDDEN"]_vars

(* a caller who is not an admin was refused the deletion of another user,  *)
(* who is still stored                                                     *)
C19_Witness ==
  /\ last.op = "deleteUser"
  /\ last.res = "FORBIDDEN"
  /\ last.a.userId \in DOMAIN users
  /\ last.a.currentUserId \in DOMAIN users

(* a password change of an existing user whose current password verifies   *)
(* and whose new password is the current one                               *)
SamePasswordCall ==
  /\ last'.op = "changePassword"
  /\ last'.a.userId \in DOMAIN users
  /\ users[last'.a.userId].password_hash = [bcrypt |-> last'.a.currentPassword]
  /\ last'.a.newPassword = last'.a.currentPassword

RefreshCall == last'.op = "refreshAccessToken"

(* C21: a refreshAccessToken call with a refresh token issued to a user    *)
(* who has since been deleted returns null and mints no token; a token     *)
(* that fails the verification of the refresh domain gets null too, and no *)
(* user is looked up for it.                                               *)
C21_RevocationByDeletion ==
  [][RefreshCall =>
       LET t == last'.a.refreshToken
       IN /\ (t \in held /\ t.payload.id \notin DOMAIN users) =>
               last'.res = "null" /\ last'.ret = <<>>
          /\ t.secret # "REFRESH_SECRET" =>
               /\ last'.res = "null" /\ last'.ret = <<>>
               /\ \A i \in 1..Len(last'.steps) : last'.steps[i] # "findById"]_vars

C21_Witness ==
  /\ last.op = "refreshAccessToken"
  /\ last.a.refreshToken \in held
  /\ last.a.refreshToken.payload.id \notin DOMAIN users
  /\ last.a.refreshToken.payload.id < nextUserId
  /\ last.res = "null"

(* C22: the access token refreshAccessToken mints carries the id,          *)
(* username, email and role stored for the user when the refresh is made,  *)
(* whatever claims the refresh token presented carries.                    *)
C22_RefreshCarriesStoredClaims ==
  [][(RefreshCall /\ last'.res = "ok") =>
       LET id == last'.a.refreshToken.payload.id
       IN /\ id \in DOMAIN users
          /\ last'.ret =
               <<[payload |-> [id |-> id, username |-> users[id].username,
                               email |-> users[id].email, role |-> users[id].role],
                  secret |-> "SECRET"]>>]_vars

C22_Witness ==
  /\ last.op = "refreshAccessToken"
  /\ last.res = "ok"
  /\ last.a.refreshToken \in held
  /\ last.a.refreshToken.payload.role = "user"
  /\ last.ret[1].payload.role = "admin"
  /\ last.ret[1].payload.username # last.a.refreshToken.payload.username

HasOneOf(password, class) == \E i \in 1..Len(password) : password[i] \in class

FirstViolated(password) ==
  CASE Len(password) < MinPasswordLen -> "PASSWORD_TOO_SHORT"
    [] Len(password) >= MinPasswordLen /\ ~HasOneOf(password, UpperChars) ->
         "PASSWORD_NEEDS_UPPERCASE"
    [] Len(password) >= MinPasswordLen /\ HasOneOf(password, UpperChars)
         /\ ~HasOneOf(password, LowerChars) -> "PASSWORD_NEEDS_LOWERCASE"
    [] Len(password) >= MinPasswordLen /\ HasOneOf(password, UpperChars)
         /\ HasOneOf(password, LowerChars) /\ ~HasOneOf(password, DigitChars) ->
         "PASSWORD_NEEDS_NUMBER"
    [] OTHER -> "PASSWORD_NEEDS_SPECIAL"

RefusalCodes ==
  {"INVALID_DUE_DATE", "INVALID_STATUS", "INVALID_TITLE", "NO_UPDATE_DATA", "FORBIDDEN",
   "MISSING_REQUIRED_FIELDS", "EMAIL_EXISTS", "USERNAME_EXISTS",
   "INVALID_CURRENT_PASSWORD", "PASSWORD_SAME",
   "PASSWORD_TOO_SHORT", "PASSWORD_NEEDS_UPPERCASE", "PASSWORD_NEEDS_LOWERCASE",
   "PASSWORD_NEEDS_NUMBER", "PASSWORD_NEEDS_SPECIAL"}

Writes == {"INSERT", "UPDATE", "DELETE"}

(* C24: a call of the task service or of the account service that ends     *)
(* with a validation or an authorization error has written nothing: the    *)
(* users and the tasks stored are what they were before the call.          *)
C24_NoWriteBeforeRefusal ==
  [][last'.res \in RefusalCodes =>
       /\ users' = users /\ nextUserId' = nextUserId
       /\ tasks' = tasks /\ nextId' = nextId
       /\ "steps" \in DOMAIN last' =>
            \A i \in 1..Len(last'.steps) : last'.steps[i] \notin Writes]_vars

C24_Witness ==
  /\ last.op = "updateTask"
  /\ last.res = "INVALID_STATUS"
  /\ last.id \in DOMAIN tasks
  /\ tasks[last.id].user_id = last.userId
  /\ tasks[last.id].status = Some(PENDING)
  /\ users # <<>>

(* ------------------------------ the search ----------------------------- *)
LowerCased(str) == [i \in 1..Len(str) |-> ToLower(str[i])]
ContainsNoCase(str, term) == Contains(LowerCased(str), LowerCased(term))

Holding(u, term) ==
  {fromDatabaseRow(r) :
     r \in {x \in Rows :
              /\ x.user_id = u
              /\ \/ ContainsNoCase(x.title, term)
                 \/ ~IsNull(x.description) /\ ContainsNoCase(Val(x.description), term)}}

SearchRequest == last.op = "getAllTasks" /\ ~IsNull(last.query.search) /\ last.query.search # Some(<<>>)

(* the search term wins over the filters of the same request *)
SearchAloneDecides ==
  SearchRequest => last.ret \in getAllTasks(last.userId, [NoQuery EXCEPT !.search = last.query.search])

(* C26: a listing requested with a search term, with or without other      *)
(* filters, returns the tasks of the user whose title or description       *)
(* contains the term, letters compared without case, and no others.        *)
C26_SearchTakesPrecedence ==
  SearchRequest => Elements(last.ret) = Holding(last.userId, Val(last.query.search))

(* --------------------------- concurrent calls -------------------------- *)
Finished(i, op, res) == procs[i].op = op /\ procs[i].res = res

(* C27: two updateTask calls by the owner on the same task that supply     *)
(* disjoint sets of fields lose no update, however their queries           *)
(* interleave: when both have completed, the task holds the values of      *)
(* both (each as its column stores it).                                    *)
C27_NoLostUpdate ==
  \A i, j \in ProcIds :
    (/\ i # j
     /\ Finished(i, "updateTask", "ok") /\ Finished(j, "updateTask", "ok")
     /\ procs[i].a.taskId = procs[j].a.taskId
     /\ procs[i].a.data.def \cap procs[j].a.data.def = {})
    => /\ procs[i].a.taskId \in DOMAIN tasks
       /\ \A f \in procs[i].a.data.def \cap Fields :
            tasks[procs[i].a.taskId][f] = SuppliedValue(procs[i].a.data, f)

(* both updates went through their first query before either wrote *)
C27_Witness ==
  /\ Finished(1, "updateTask", "ok") /\ Finished(2, "updateTask", "ok")
  /\ procs[1].a.data.def = {"title"}
  /\ procs[2].a.data.def = {"description", "due_date"}
  /\ tasks[1].updated_at = now
  /\ tasks[1].title = TitleB
  /\ tasks[1].description = Some(<<"e">>)

DeletedBy(i, id) == Finished(i, "deleteTask", "true") /\ procs[i].a.taskId = id

(* the step is the UPDATE of call j *)
WritesNow(j) ==
  /\ procs[j].op \in {"updateTask", "changeTaskStatus"}
  /\ procs[j].pc = "update"
  /\ procs'[j].pc = "done"

(* C28: once deleteTask has returned true for a task, getTaskById does not *)
(* return it, and an updateTask or changeTaskStatus whose UPDATE comes     *)
(* after the delete neither brings the row back nor returns a task.        *)
C28_DeletedStaysDeleted ==
  [][\A i \in ProcIds, id \in TaskIds :
       DeletedBy(i, id) =>
         /\ id \notin DOMAIN tasks /\ id \notin DOMAIN tasks'
         /\ (last' # last /\ last'.op = "getTaskById" /\ last'.a.taskId = id) =>
              last'.res = "null" /\ last'.ret = <<>>
         /\ \A j \in ProcIds :
              (WritesNow(j) /\ procs[j].a.taskId = id) =>
                procs'[j].res # "ok" /\ procs'[j].ret = <<>>]_vars

(* an update passed its checks while the task was there, the delete        *)
(* returned true, and then the UPDATE of the update ran                    *)
C28_Witness ==
  /\ DeletedBy(1, 1)
  /\ procs[2].op = "updateTask"
  /\ procs[2].a.taskId = 1
  /\ procs[2].steps = <<"findById", "findById", "UPDATE">>
  /\ procs[2].res = "SERVER_ERROR"
  /\ last.op = "getTaskById" /\ last.a.taskId = 1 /\ last.res = "null"

(* -------------------------------- roles -------------------------------- *)
(* C29: registrations, with any payload, and profile updates made by       *)
(* callers who are not admins never leave a user with the role admin in    *)
(* the users table.                                                        *)
C29_NoAdminWithoutAdmin == \A id \in DOMAIN users : users[id].role # "admin"

(* --------------------- due dates and the overdue view ------------------ *)
(* C30: a task whose due date passes the not-in-the-past check of          *)
(* createTask and updateTask at an instant is not in the overdue listing   *)
(* made at that instant: every task the listing returns has a due date     *)
(* that the check refuses.                                                 *)
C30_AcceptedIsNotOverdue ==
  last.op = "getOverdueTasks" =>
    \A i \in 1..Len(last.ret) :
      validateDueDate(Val(last.ret[i].due_date)) = "INVALID_DUE_DATE"
====
